---- MODULE Spec2Model ----
(***************************************************************************)
(* A model of src/dexscreener_bot.py: the poll / compare / notify loop of  *)
(* the DexScreener monitor.  The state is the module's globals (stats, the *)
(* seen-maps, the profile caches, known_tokens), main()'s locals and       *)
(* position, and what the last step printed and sent.  The responses of    *)
(* the two HTTP APIs are the inputs; every action draws them from the      *)
(* environment E of the specification it runs under.                       *)
(***************************************************************************)
EXTENDS Integers, Sequences, FiniteSets, TLC

VARIABLES
    pc,               \* where main() stands
    USE_TELEGRAM,     \* bool(TELEGRAM_BOT_TOKEN and TELEGRAM_CHAT_ID)
    stats,            \* polls, ads_detected, boosts_detected, orders_detected, errors
    seen_ads,         \* set of (chain_id, token_address)
    seen_boosts,      \* token_address -> totalAmount
    seen_orders,      \* token_address -> latest payment timestamp
    seen_profiles,    \* set of (chain_id, token_address)
    profile_headers,  \* (chain_id, token_address) -> image URL
    profile_socials,  \* (chain_id, token_address) -> links
    known_tokens,     \* set of (chain_id, token_address)
    ads,              \* main()'s local: the fetch of DEX_ADS_URL
    profiles,         \* main()'s local: the fetch of DEX_PROFILES_URL
    boosts,           \* main()'s local: the fetch of DEX_BOOST_URL
    todo,             \* what is left of list(known_tokens) in a per-token loop
    tg_queue,         \* the messaging service's unacknowledged inbound updates
    tg_next_id,       \* the update_id the service gives the next inbound update
    alerts,           \* the alerts the last step passed to print_alert, in order
    sent,             \* the requests the last step made to the messaging service
    ran,              \* the calls main() has made in the current cycle, in order
    emitted,          \* kind -> (chain_id, token_address) -> alerts raised since start
    data              \* the per-token loop's locals: chain_id, token_address, the fetch

vars == << pc, USE_TELEGRAM, stats, seen_ads, seen_boosts, seen_orders,
           seen_profiles, profile_headers, profile_socials, known_tokens,
           ads, profiles, boosts, todo, tg_queue, tg_next_id,
           alerts, sent, ran, emitted, data >>

----------------------------------------------------------------------------
(* Bounds of the model *)

\* the poll counter stops here under Spec
MaxPolls == 5
\* the poll counter stops here under SpecDriver
DriverPolls == 30
\* records in one feed snapshot, orders in one order list
MaxFeedLen == 2
\* stats["errors"] stops here
MaxErrors == 1
\* inbound updates the messaging service ever receives
MaxUpdates == 1

----------------------------------------------------------------------------
(* Values *)

Chains == {"eth", "sol"}
Addrs == {"0xA", "0xB"}
Keys == Chains \X Addrs
Kinds == {"AD", "PROFILE", "BOOST", "ORDER"}

\* Python's None where a string is expected, and an absent number
None == "None"
Null == << >>
Some(x) == << x >>

\* a value returned by fetch_json: None, or the parsed JSON list
PyNone == [none |-> TRUE, items |-> << >>]
PyList(s) == [none |-> FALSE, items |-> s]

\* Python truthiness of such a value: None and [] are falsy
Truthy(v) == ~v.none /\ v.items # << >>

\* dict.get(k, default), and d[k] = v
Get(d, k, default) == IF k \in DOMAIN d THEN d[k] ELSE default
Put(d, k, v) == [x \in (DOMAIN d) \cup {k} |-> IF x = k THEN v ELSE d[x]]

Max(a, b) == IF a >= b THEN a ELSE b

\* sequences over S of length at most n
SeqUpTo(S, n) == UNION {[1..k -> S] : k \in 0..n}

\* BOT_START_TIME in milliseconds (bot_start_ms)
BOT_START_MS == 2

----------------------------------------------------------------------------
(* The HTTP fetcher and the enricher *)

\* A response is [kind, body]: kind "ok" is status 200 with a body that parses
\* as JSON, "http" any other status, "exc" an exception of requests.get and
\* "badjson" status 200 with a body response.json() raises on.
FetchKinds == {"ok", "http", "exc", "badjson"}

\* fetch_json without the test of line 73: the body is read whatever the status
fetch_json_AnyStatus(resp) ==
    [ value  |-> IF resp.kind \in {"ok", "http"} THEN PyList(resp.body) ELSE PyNone,
      errors |-> IF resp.kind \in {"exc", "badjson"} THEN 1 ELSE 0 ]

\* fetch_json: the value returned and what it adds to stats["errors"]
fetch_json(resp) ==
    [ value  |-> IF resp.kind = "ok" THEN PyList(resp.body) ELSE PyNone,
      errors |-> IF resp.kind \in {"exc", "badjson"} THEN 1 ELSE 0 ]

\* token_address[:8] + "..."
Trunc8(token_address) ==
    CASE token_address = "0xA" -> "0xA..."
      [] token_address = "0xB" -> "0xB..."
      [] OTHER -> "..."

NoInfo == [found |-> FALSE, name |-> None, symbol |-> None, price_usd |-> None]

\* get_token_info: the dict returned ({} is NoInfo) and the errors of its fetch
get_token_info(resp, token_address) ==
    LET f == fetch_json(resp)
    IN  [ errors |-> f.errors,
          info |-> IF ~Truthy(f.value) THEN NoInfo
                   ELSE LET pair == f.value.items[1]
                        IN  [ found |-> TRUE,
                              name |-> IF pair.name # None THEN pair.name
                                       ELSE Trunc8(token_address),
                              symbol |-> IF pair.symbol # None THEN pair.symbol ELSE "",
                              price_usd |-> pair.priceUsd ] ]

----------------------------------------------------------------------------
(* Formatting of prices. A text is the sequence of its characters. *)

DigitChars == << "0", "1", "2", "3", "4", "5", "6", "7", "8", "9" >>
IsDigit(c) == \E d \in DOMAIN DigitChars : DigitChars[d] = c
DigitVal(c) == (CHOOSE d \in DOMAIN DigitChars : DigitChars[d] = c) - 1
NA == << "N", "/", "A" >>

\* the characters of the priceUsd values the endpoints of the model answer;
\* None has none (float(None) fails as float("") does)
Chars(price) ==
    CASE price = "0.5" -> << "0", ".", "5" >>
      [] price = "12.5" -> << "1", "2", ".", "5" >>
      [] price = "1234.5" -> << "1", "2", "3", "4", ".", "5" >>
      [] price = "abc" -> << "a", "b", "c" >>
      [] OTHER -> << >>

RECURSIVE NatOf(_)
NatOf(cs) ==
    IF cs = << >> THEN 0
    ELSE NatOf(SubSeq(cs, 1, Len(cs) - 1)) * 10 + DigitVal(cs[Len(cs)])

RECURSIVE Pow10(_)
Pow10(n) == IF n = 0 THEN 1 ELSE 10 * Pow10(n - 1)

\* the decimals of f"{p:.8f}"
Decimals == 8

\* float(text) for a text of digits with at most one point and at most
\* Decimals decimals: the whole part and the decimals in units of 10^-8; any
\* other character (a comma, a letter, "/") makes float() raise
float(text) ==
    LET points == {i \in DOMAIN text : text[i] = "."}
        digits == {i \in DOMAIN text : IsDigit(text[i])}
        ok == /\ digits # {}
              /\ points \cup digits = DOMAIN text
              /\ Cardinality(points) <= 1
        dot == IF points = {} THEN Len(text) + 1 ELSE CHOOSE i \in points : TRUE
        decimals == SubSeq(text, dot + 1, Len(text))
    IN  IF ~ok \/ Len(decimals) > Decimals THEN [ok |-> FALSE, whole |-> 0, frac |-> 0]
        ELSE [ ok |-> TRUE, whole |-> NatOf(SubSeq(text, 1, dot - 1)),
               frac |-> NatOf(decimals) * Pow10(Decimals - Len(decimals)) ]

RECURSIVE NatChars(_)
NatChars(n) ==
    IF n < 10 THEN << DigitChars[n + 1] >>
    ELSE NatChars(n \div 10) \o << DigitChars[(n % 10) + 1] >>

\* n written with w digits, zeros in front
RECURSIVE Padded(_, _)
Padded(n, w) ==
    IF w = 0 THEN << >> ELSE Padded(n \div 10, w - 1) \o << DigitChars[(n % 10) + 1] >>

\* the "," of the format: groups of three digits
RECURSIVE Grouped(_)
Grouped(n) ==
    IF n < 1000 THEN NatChars(n)
    ELSE Grouped(n \div 1000) \o << "," >> \o Padded(n % 1000, 3)

\* text.rstrip(c)
RECURSIVE rstrip(_, _)
rstrip(text, c) ==
    IF Len(text) > 0 /\ text[Len(text)] = c
    THEN rstrip(SubSeq(text, 1, Len(text) - 1), c) ELSE text

\* format_price: f"{p:,.2f}" from 1 up, f"{p:.8f}" without its trailing zeros
\* and point below 1, "N/A" when float() raises
format_price(text) ==
    LET p == float(text)
        hundredths == p.whole * 100 + (p.frac + Pow10(Decimals - 2) \div 2) \div Pow10(Decimals - 2)
    IN  IF ~p.ok THEN NA
        ELSE IF p.whole >= 1
             THEN Grouped(hundredths \div 100) \o << "." >> \o Padded(hundredths % 100, 2)
             ELSE rstrip(rstrip(<< "0", "." >> \o Padded(p.frac, Decimals), "0"), ".")

\* the text after "Price: $" in the console block (lines 404, 466, 522, 585)
ConsolePrice(info) == format_price(Chars(info.price_usd))

\* the text after "Price: $" in the channel message: print_alert takes the text
\* back from the console line (lines 311-314) and format_telegram_alert formats
\* it again if it is not empty (lines 190-193); << >> when no price line
ChannelPrice(info) ==
    LET price_str == ConsolePrice(info)
    IN  IF price_str # << >> THEN format_price(price_str) ELSE << >>

----------------------------------------------------------------------------
(* The notifier *)

\* what a request to the messaging service meets: status 200, another status,
\* or an exception
TgOutcomes == {"ok", "fail", "exc"}

\* send_telegram_message: the requests made and the value returned
send_telegram_message(use, outcome) ==
    IF ~use THEN [requests |-> << >>, ret |-> FALSE]
    ELSE [ requests |-> << [op |-> "sendMessage", outcome |-> outcome] >>,
           ret |-> (outcome = "ok") ]

\* send_telegram_photo: o[1] is what the photo request meets, o[2] what the
\* text request of its fallback meets
send_telegram_photo(use, o) ==
    IF ~use THEN [requests |-> << >>, ret |-> FALSE]
    ELSE LET photo == << [op |-> "sendPhoto", outcome |-> o[1]] >>
         IN  IF o[1] = "ok" THEN [requests |-> photo, ret |-> TRUE]
             ELSE LET m == send_telegram_message(use, o[2])
                  IN  [requests |-> photo \o m.requests, ret |-> m.ret]

\* the delivery at the end of print_alert (lines 365-367)
Deliver(use, o) ==
    LET p == send_telegram_photo(use, o)
    IN  IF p.ret THEN p.requests
        ELSE p.requests \o send_telegram_message(use, o[3]).requests

\* the requests of one alert, tagged with the alert's place in alerts
Tagged(reqs, n) ==
    [i \in 1..Len(reqs) |-> [op |-> reqs[i].op, outcome |-> reqs[i].outcome, alert |-> n]]

\* whether the seen-state already holds the record of the alert when
\* print_alert is called for it (lines 392/411, 456/476, 505/526, 561/589)
Noted(g, alert) ==
    CASE alert.kind = "AD" -> <<alert.chain, alert.addr>> \in g.seen_ads
      [] alert.kind = "PROFILE" -> <<alert.chain, alert.addr>> \in g.seen_profiles
      [] alert.kind = "BOOST" -> Get(g.seen_boosts, alert.addr, 0) = alert.total[1]
      [] alert.kind = "ORDER" -> Get(g.seen_orders, alert.addr, 0) = alert.paid_at[1]

\* print_alert: the console block, then the delivery if USE_TELEGRAM
print_alert(g, alert, o) ==
    LET n == Len(g.alerts) + 1
    IN  [g EXCEPT !.alerts = Append(@, [alert EXCEPT !.noted = Noted(g, alert)]),
                  !.sent = IF g.use_telegram
                           THEN @ \o Tagged(Deliver(g.use_telegram, o), n)
                           ELSE @,
                  !.emitted[alert.kind][<<alert.chain, alert.addr>>] = @ + 1]

\* the words print_alert looks for (lines 352-359) that the title of the alert
\* contains: "NEW AD", "NEW TOKEN PROFILE", "NEW BOOST" (lines 411, 476, 526)
\* and "NEW ORDER - " followed by the order type in upper case (line 589)
TitleWords(alert) ==
    CASE alert.kind = "AD" -> {"AD"}
      [] alert.kind = "PROFILE" -> {"PROFILE"}
      [] alert.kind = "BOOST" -> {"BOOST"}
      [] alert.kind = "ORDER" ->
           {"ORDER"} \cup (CASE alert.order_type = "tokenProfile" -> {"PROFILE"}
                             [] alert.order_type \in {"tokenAd", "trendingBarAd"} -> {"AD"}
                             [] OTHER -> {})

\* lines 351-360: the event type of the message sent to the channel
EventType(words) ==
    IF "PROFILE" \in words THEN "PROFILE"
    ELSE IF "BOOST" \in words THEN "BOOST"
    ELSE IF "ORDER" \in words THEN "ORDER"
    ELSE IF "AD" \in words THEN "AD"
    ELSE "ALERT"

\* an alert: who raised it, for which token, and the lines that vary
Alert(kind, chain_id, token_address, info) ==
    [ kind |-> kind, chain |-> chain_id, addr |-> token_address, info |-> info,
      amount |-> Null, total |-> Null, previous |-> Null, delta |-> Null,
      order_type |-> None, status |-> None, paid_at |-> Null, last_seen |-> Null,
      noted |-> FALSE ]

----------------------------------------------------------------------------
(* The change detector.  g holds the module's globals and what the step has  *)
(* printed and sent so far; o is what the enrichment fetch and the delivery  *)
(* of one alert meet: [enrich |-> response, tg |-> <<photo, text, text>>];   *)
(* oracle[n] is the o of the n-th alert of the step.                         *)

HasIdentity(rec) == rec.chainId # None /\ rec.tokenAddress # None

\* what the next alert of the step meets
Meets(g, oracle) == oracle[Len(g.alerts) + 1]

Enriched(g, o, token_address) ==
    LET t == get_token_info(o.enrich, token_address)
    IN  [ g |-> [g EXCEPT !.stats.errors = @ + t.errors], info |-> t.info ]

\* ProcessAd without the test of lines 388-389
ProcessAd_NoSeenTest(g, ad, oracle) ==
    IF ~HasIdentity(ad) THEN g
    ELSE LET key == <<ad.chainId, ad.tokenAddress>>
             g2 == [g EXCEPT !.known_tokens = @ \cup {key},
                             !.seen_ads = @ \cup {key},
                             !.stats.ads_detected = @ + 1]
             o == Meets(g2, oracle)
             e == Enriched(g2, o, ad.tokenAddress)
         IN  print_alert(e.g, Alert("AD", ad.chainId, ad.tokenAddress, e.info), o.tg)

\* ProcessAd with line 392 assigning seen_ads = {key}
ProcessAd_ForgetsOthers(g, ad, oracle) ==
    IF ~HasIdentity(ad) THEN g
    ELSE LET key == <<ad.chainId, ad.tokenAddress>>
             g1 == [g EXCEPT !.known_tokens = @ \cup {key}]
         IN  IF key \in g1.seen_ads THEN g1
             ELSE LET g2 == [g1 EXCEPT !.seen_ads = {key},
                                       !.stats.ads_detected = @ + 1]
                      o == Meets(g2, oracle)
                      e == Enriched(g2, o, ad.tokenAddress)
                  IN  print_alert(e.g, Alert("AD", ad.chainId, ad.tokenAddress, e.info), o.tg)

\* the body of process_ads's loop (lines 378-412)
\* ProcessAd with lines 392-393 moved after line 411
ProcessAd_NotifyFirst(g, ad, oracle) ==
    IF ~HasIdentity(ad) THEN g
    ELSE LET key == <<ad.chainId, ad.tokenAddress>>
             g1 == [g EXCEPT !.known_tokens = @ \cup {key}]
         IN  IF key \in g1.seen_ads THEN g1
             ELSE LET o == Meets(g1, oracle)
                      e == Enriched(g1, o, ad.tokenAddress)
                      p == print_alert(e.g, Alert("AD", ad.chainId, ad.tokenAddress, e.info),
                                       o.tg)
                  IN  [p EXCEPT !.seen_ads = @ \cup {key}, !.stats.ads_detected = @ + 1]

ProcessAd(g, ad, oracle) ==
    IF ~HasIdentity(ad) THEN g
    ELSE LET key == <<ad.chainId, ad.tokenAddress>>
             g1 == [g EXCEPT !.known_tokens = @ \cup {key}]
         IN  IF key \in g1.seen_ads THEN g1
             ELSE LET g2 == [g1 EXCEPT !.seen_ads = @ \cup {key},
                                       !.stats.ads_detected = @ + 1]
                      o == Meets(g2, oracle)
                      e == Enriched(g2, o, ad.tokenAddress)
                  IN  print_alert(e.g, Alert("AD", ad.chainId, ad.tokenAddress, e.info), o.tg)

RECURSIVE ProcessAdsFrom(_, _, _, _)
ProcessAdsFrom(g, items, i, oracle) ==
    IF i > Len(items) THEN g
    ELSE ProcessAdsFrom(ProcessAd(g, items[i], oracle), items, i + 1, oracle)

process_ads(g, v, oracle) ==
    IF v.none THEN g ELSE ProcessAdsFrom(g, v.items, 1, oracle)

\* Priority: openGraph > header > icon (lines 436-442, 621-627)
ImageUrl(profile) ==
    IF profile.openGraph # None THEN profile.openGraph
    ELSE IF profile.header # None THEN profile.header
    ELSE IF profile.icon # None THEN profile.icon
    ELSE None

\* StoreProfile keeping the image a key already has
StoreProfile_KeepFirst(g, key, profile) ==
    LET image_url == ImageUrl(profile)
        g1 == IF image_url # None /\ key \notin DOMAIN g.profile_headers
              THEN [g EXCEPT !.profile_headers = Put(@, key, image_url)] ELSE g
    IN  IF profile.links # None
        THEN [g1 EXCEPT !.profile_socials = Put(@, key, profile.links)] ELSE g1

\* lines 444-449, 629-634: the caches take what this observation carries
StoreProfile(g, key, profile) ==
    LET image_url == ImageUrl(profile)
        g1 == IF image_url # None
              THEN [g EXCEPT !.profile_headers = Put(@, key, image_url)] ELSE g
    IN  IF profile.links # None
        THEN [g1 EXCEPT !.profile_socials = Put(@, key, profile.links)] ELSE g1

\* the body of process_profiles's loop (lines 423-477)
ProcessProfile(g, profile, oracle) ==
    IF ~HasIdentity(profile) THEN g
    ELSE LET key == <<profile.chainId, profile.tokenAddress>>
             g1 == [g EXCEPT !.known_tokens = @ \cup {key}]
             g2 == StoreProfile(g1, key, profile)
         IN  IF key \in g2.seen_profiles THEN g2
             ELSE LET g3 == [g2 EXCEPT !.seen_profiles = @ \cup {key},
                                       !.stats.orders_detected = @ + 1]
                      o == Meets(g3, oracle)
                      e == Enriched(g3, o, profile.tokenAddress)
                  IN  print_alert(e.g, Alert("PROFILE", profile.chainId,
                                             profile.tokenAddress, e.info), o.tg)

RECURSIVE ProcessProfilesFrom(_, _, _, _)
ProcessProfilesFrom(g, items, i, oracle) ==
    IF i > Len(items) THEN g
    ELSE ProcessProfilesFrom(ProcessProfile(g, items[i], oracle), items, i + 1, oracle)

process_profiles(g, v, oracle) ==
    IF v.none THEN g ELSE ProcessProfilesFrom(g, v.items, 1, oracle)

\* ProcessBoost with line 501 reading total_amount < previous_amount
ProcessBoost_RepeatFires(g, boost, oracle) ==
    IF ~HasIdentity(boost) \/ boost.totalAmount = Null THEN g
    ELSE LET key == <<boost.chainId, boost.tokenAddress>>
             total_amount == boost.totalAmount[1]
             g1 == [g EXCEPT !.known_tokens = @ \cup {key}]
             previous_amount == Get(g1.seen_boosts, boost.tokenAddress, 0)
         IN  IF total_amount < previous_amount THEN g1
             ELSE LET g2 == [g1 EXCEPT
                                !.seen_boosts = Put(@, boost.tokenAddress, total_amount),
                                !.stats.boosts_detected = @ + 1]
                      o == Meets(g2, oracle)
                      e == Enriched(g2, o, boost.tokenAddress)
                      a == [Alert("BOOST", boost.chainId, boost.tokenAddress, e.info)
                              EXCEPT !.amount = boost.amount,
                                     !.total = Some(total_amount),
                                     !.previous = IF previous_amount > 0
                                                  THEN Some(previous_amount) ELSE Null,
                                     !.delta = IF previous_amount > 0
                                               THEN Some(total_amount - previous_amount)
                                               ELSE Null]
                  IN  print_alert(e.g, a, o.tg)

\* the body of process_boosts's loop (lines 488-527)
\* ProcessBoost with a store of line 505 that also marks the token's ad as seen
ProcessBoost_MarksAd(g, boost, oracle) ==
    IF ~HasIdentity(boost) \/ boost.totalAmount = Null THEN g
    ELSE LET key == <<boost.chainId, boost.tokenAddress>>
             total_amount == boost.totalAmount[1]
             g1 == [g EXCEPT !.known_tokens = @ \cup {key}]
             previous_amount == Get(g1.seen_boosts, boost.tokenAddress, 0)
         IN  IF total_amount <= previous_amount THEN g1
             ELSE LET g2 == [g1 EXCEPT
                                !.seen_boosts = Put(@, boost.tokenAddress, total_amount),
                                !.seen_ads = @ \cup {key},
                                !.stats.boosts_detected = @ + 1]
                      o == Meets(g2, oracle)
                      e == Enriched(g2, o, boost.tokenAddress)
                      a == [Alert("BOOST", boost.chainId, boost.tokenAddress, e.info)
                              EXCEPT !.amount = boost.amount,
                                     !.total = Some(total_amount),
                                     !.previous = IF previous_amount > 0
                                                  THEN Some(previous_amount) ELSE Null,
                                     !.delta = IF previous_amount > 0
                                               THEN Some(total_amount - previous_amount)
                                               ELSE Null]
                  IN  print_alert(e.g, a, o.tg)

\* ProcessBoost with line 497 moved below the test of line 501
ProcessBoost_KnownIfNew(g, boost, oracle) ==
    IF ~HasIdentity(boost) \/ boost.totalAmount = Null THEN g
    ELSE LET key == <<boost.chainId, boost.tokenAddress>>
             total_amount == boost.totalAmount[1]
             previous_amount == Get(g.seen_boosts, boost.tokenAddress, 0)
         IN  IF total_amount <= previous_amount THEN g
             ELSE LET g2 == [g EXCEPT
                                !.known_tokens = @ \cup {key},
                                !.seen_boosts = Put(@, boost.tokenAddress, total_amount),
                                !.stats.boosts_detected = @ + 1]
                      o == Meets(g2, oracle)
                      e == Enriched(g2, o, boost.tokenAddress)
                      a == [Alert("BOOST", boost.chainId, boost.tokenAddress, e.info)
                              EXCEPT !.amount = boost.amount,
                                     !.total = Some(total_amount),
                                     !.previous = IF previous_amount > 0
                                                  THEN Some(previous_amount) ELSE Null,
                                     !.delta = IF previous_amount > 0
                                               THEN Some(total_amount - previous_amount)
                                               ELSE Null]
                  IN  print_alert(e.g, a, o.tg)

ProcessBoost(g, boost, oracle) ==
    IF ~HasIdentity(boost) \/ boost.totalAmount = Null THEN g
    ELSE LET key == <<boost.chainId, boost.tokenAddress>>
             total_amount == boost.totalAmount[1]
             g1 == [g EXCEPT !.known_tokens = @ \cup {key}]
             previous_amount == Get(g1.seen_boosts, boost.tokenAddress, 0)
         IN  IF total_amount <= previous_amount THEN g1
             ELSE LET g2 == [g1 EXCEPT
                                !.seen_boosts = Put(@, boost.tokenAddress, total_amount),
                                !.stats.boosts_detected = @ + 1]
                      o == Meets(g2, oracle)
                      e == Enriched(g2, o, boost.tokenAddress)
                      a == [Alert("BOOST", boost.chainId, boost.tokenAddress, e.info)
                              EXCEPT !.amount = boost.amount,
                                     !.total = Some(total_amount),
                                     !.previous = IF previous_amount > 0
                                                  THEN Some(previous_amount) ELSE Null,
                                     !.delta = IF previous_amount > 0
                                               THEN Some(total_amount - previous_amount)
                                               ELSE Null]
                  IN  print_alert(e.g, a, o.tg)

RECURSIVE ProcessBoostsFrom(_, _, _, _)
ProcessBoostsFrom(g, items, i, oracle) ==
    IF i > Len(items) THEN g
    ELSE ProcessBoostsFrom(ProcessBoost(g, items[i], oracle), items, i + 1, oracle)

process_boosts(g, v, oracle) ==
    IF v.none THEN g ELSE ProcessBoostsFrom(g, v.items, 1, oracle)

\* order.get("paymentTimestamp", 0)
PaymentTimestamp(order) ==
    IF order.paymentTimestamp = Null THEN 0 ELSE order.paymentTimestamp[1]

\* CheckOrder without the test of lines 553-555
CheckOrder_NoStartTest(g, chain_id, token_address, order, oracle) ==
    LET payment_timestamp == PaymentTimestamp(order)
        last_seen == Get(g.seen_orders, token_address, 0)
    IN  IF ~(payment_timestamp > last_seen) THEN g
        ELSE LET g1 == [g EXCEPT
                           !.seen_orders = Put(@, token_address, payment_timestamp),
                           !.stats.orders_detected = @ + 1]
                 o == Meets(g1, oracle)
                 e == Enriched(g1, o, token_address)
                 a == [Alert("ORDER", chain_id, token_address, e.info)
                         EXCEPT !.order_type = order.type,
                                !.status = order.status,
                                !.paid_at = Some(payment_timestamp),
                                !.last_seen = Some(last_seen)]
             IN  print_alert(e.g, a, o.tg)

\* CheckOrder without the assignment of line 561
CheckOrder_NoStore(g, chain_id, token_address, order, oracle) ==
    LET payment_timestamp == PaymentTimestamp(order)
        last_seen == Get(g.seen_orders, token_address, 0)
    IN  IF payment_timestamp < BOT_START_MS THEN g
        ELSE IF ~(payment_timestamp > last_seen) THEN g
        ELSE LET g1 == [g EXCEPT !.stats.orders_detected = @ + 1]
                 o == Meets(g1, oracle)
                 e == Enriched(g1, o, token_address)
                 a == [Alert("ORDER", chain_id, token_address, e.info)
                         EXCEPT !.order_type = order.type,
                                !.status = order.status,
                                !.paid_at = Some(payment_timestamp),
                                !.last_seen = Some(last_seen)]
             IN  print_alert(e.g, a, o.tg)

\* CheckOrder with line 560 reading payment_timestamp != last_seen
CheckOrder_Differs(g, chain_id, token_address, order, oracle) ==
    LET payment_timestamp == PaymentTimestamp(order)
        last_seen == Get(g.seen_orders, token_address, 0)
    IN  IF payment_timestamp < BOT_START_MS THEN g
        ELSE IF ~(payment_timestamp # last_seen) THEN g
        ELSE LET g1 == [g EXCEPT
                           !.seen_orders = Put(@, token_address, payment_timestamp),
                           !.stats.orders_detected = @ + 1]
                 o == Meets(g1, oracle)
                 e == Enriched(g1, o, token_address)
                 a == [Alert("ORDER", chain_id, token_address, e.info)
                         EXCEPT !.order_type = order.type,
                                !.status = order.status,
                                !.paid_at = Some(payment_timestamp),
                                !.last_seen = Some(last_seen)]
             IN  print_alert(e.g, a, o.tg)

\* CheckOrder with line 560 reading payment_timestamp >= last_seen
CheckOrder_AtLeast(g, chain_id, token_address, order, oracle) ==
    LET payment_timestamp == PaymentTimestamp(order)
        last_seen == Get(g.seen_orders, token_address, 0)
    IN  IF payment_timestamp < BOT_START_MS THEN g
        ELSE IF ~(payment_timestamp >= last_seen) THEN g
        ELSE LET g1 == [g EXCEPT
                           !.seen_orders = Put(@, token_address, payment_timestamp),
                           !.stats.orders_detected = @ + 1]
                 o == Meets(g1, oracle)
                 e == Enriched(g1, o, token_address)
                 a == [Alert("ORDER", chain_id, token_address, e.info)
                         EXCEPT !.order_type = order.type,
                                !.status = order.status,
                                !.paid_at = Some(payment_timestamp),
                                !.last_seen = Some(last_seen)]
             IN  print_alert(e.g, a, o.tg)

\* CheckOrder with a store of line 561 that keeps a timestamp already stored
CheckOrder_StoresOnce(g, chain_id, token_address, order, oracle) ==
    LET payment_timestamp == PaymentTimestamp(order)
        last_seen == Get(g.seen_orders, token_address, 0)
    IN  IF payment_timestamp < BOT_START_MS THEN g
        ELSE IF ~(payment_timestamp > last_seen) THEN g
        ELSE LET g1 == [g EXCEPT
                           !.seen_orders = IF last_seen > 0 THEN @
                                           ELSE Put(@, token_address, payment_timestamp),
                           !.stats.orders_detected = @ + 1]
                 o == Meets(g1, oracle)
                 e == Enriched(g1, o, token_address)
                 a == [Alert("ORDER", chain_id, token_address, e.info)
                         EXCEPT !.order_type = order.type,
                                !.status = order.status,
                                !.paid_at = Some(payment_timestamp),
                                !.last_seen = Some(last_seen)]
             IN  print_alert(e.g, a, o.tg)

\* the body of check_orders's inner loop (lines 550-590)
CheckOrder(g, chain_id, token_address, order, oracle) ==
    LET payment_timestamp == PaymentTimestamp(order)
        last_seen == Get(g.seen_orders, token_address, 0)
    IN  IF payment_timestamp < BOT_START_MS THEN g
        ELSE IF ~(payment_timestamp > last_seen) THEN g
        ELSE LET g1 == [g EXCEPT
                           !.seen_orders = Put(@, token_address, payment_timestamp),
                           !.stats.orders_detected = @ + 1]
                 o == Meets(g1, oracle)
                 e == Enriched(g1, o, token_address)
                 a == [Alert("ORDER", chain_id, token_address, e.info)
                         EXCEPT !.order_type = order.type,
                                !.status = order.status,
                                !.paid_at = Some(payment_timestamp),
                                !.last_seen = Some(last_seen)]
             IN  print_alert(e.g, a, o.tg)

RECURSIVE CheckOrdersFrom(_, _, _, _, _, _)
CheckOrdersFrom(g, chain_id, token_address, orders, i, oracle) ==
    IF i > Len(orders) THEN g
    ELSE CheckOrdersFrom(CheckOrder(g, chain_id, token_address, orders[i], oracle),
                         chain_id, token_address, orders, i + 1, oracle)

\* one pass of check_orders's outer loop (lines 541-590): the fetch of the
\* token's orders, a JSON object whose "orders" list is resp.body
CheckOrdersOf(g, chain_id, token_address, resp, oracle) ==
    LET f == fetch_json(resp)
        g1 == [g EXCEPT !.stats.errors = @ + f.errors]
    IN  IF f.value.none THEN g1
        ELSE CheckOrdersFrom(g1, chain_id, token_address, f.value.items, 1, oracle)

----------------------------------------------------------------------------
(* initialize(): the seen-state is seeded from the feeds, nothing is printed *)

\* lines 601-605
\* InitAd without line 605
InitAd_NotKnown(g, ad) ==
    IF HasIdentity(ad)
    THEN [g EXCEPT !.seen_ads = @ \cup {<<ad.chainId, ad.tokenAddress>>}]
    ELSE g

InitAd(g, ad) ==
    IF HasIdentity(ad)
    THEN [g EXCEPT !.seen_ads = @ \cup {<<ad.chainId, ad.tokenAddress>>},
                   !.known_tokens = @ \cup {<<ad.chainId, ad.tokenAddress>>}]
    ELSE g

RECURSIVE InitAdsFrom(_, _, _)
InitAdsFrom(g, items, i) ==
    IF i > Len(items) THEN g ELSE InitAdsFrom(InitAd(g, items[i]), items, i + 1)

\* lines 598-606
InitializeAds(g, v) ==
    IF v.none THEN g ELSE InitAdsFrom(g, v.items, 1)

\* lines 612-634
InitProfile(g, profile) ==
    IF HasIdentity(profile)
    THEN LET key == <<profile.chainId, profile.tokenAddress>>
         IN  StoreProfile([g EXCEPT !.seen_profiles = @ \cup {key},
                                    !.known_tokens = @ \cup {key}], key, profile)
    ELSE g

RECURSIVE InitProfilesFrom(_, _, _)
InitProfilesFrom(g, items, i) ==
    IF i > Len(items) THEN g ELSE InitProfilesFrom(InitProfile(g, items[i]), items, i + 1)

\* lines 609-635
InitializeProfiles(g, v) ==
    IF Truthy(v) THEN InitProfilesFrom(g, v.items, 1) ELSE g

\* lines 641-646: a total of None or 0 is falsy
InitBoost(g, boost) ==
    IF HasIdentity(boost) /\ boost.totalAmount # Null /\ boost.totalAmount # Some(0)
    THEN [g EXCEPT !.seen_boosts = Put(@, boost.tokenAddress, boost.totalAmount[1]),
                   !.known_tokens = @ \cup {<<boost.chainId, boost.tokenAddress>>}]
    ELSE g

RECURSIVE InitBoostsFrom(_, _, _)
InitBoostsFrom(g, items, i) ==
    IF i > Len(items) THEN g ELSE InitBoostsFrom(InitBoost(g, items[i]), items, i + 1)

\* lines 638-647
InitializeBoosts(g, v) ==
    IF v.none THEN g ELSE InitBoostsFrom(g, v.items, 1)

\* lines 661-664
\* InitOrder without the max of line 664: the last timestamp walked is stored
InitOrder_Overwrite(g, token_address, order) ==
    LET payment_timestamp == PaymentTimestamp(order)
    IN  IF payment_timestamp # 0
        THEN [g EXCEPT !.seen_orders = Put(@, token_address, payment_timestamp)]
        ELSE g

InitOrder(g, token_address, order) ==
    LET payment_timestamp == PaymentTimestamp(order)
    IN  IF payment_timestamp # 0
        THEN [g EXCEPT !.seen_orders =
                 Put(@, token_address, Max(Get(@, token_address, 0), payment_timestamp))]
        ELSE g

RECURSIVE InitOrdersFrom(_, _, _, _)
InitOrdersFrom(g, token_address, orders, i) ==
    IF i > Len(orders) THEN g
    ELSE InitOrdersFrom(InitOrder(g, token_address, orders[i]), token_address, orders, i + 1)

\* one pass of the loop of lines 655-664
InitializeOrdersOf(g, token_address, resp) ==
    LET f == fetch_json(resp)
        g1 == [g EXCEPT !.stats.errors = @ + f.errors]
    IN  IF f.value.none THEN g1 ELSE InitOrdersFrom(g1, token_address, f.value.items, 1)

----------------------------------------------------------------------------
(* The command listener *)

IsCommand(text) == text \in {"/start", "/status"}

\* the loop of lines 679-724: a reply to each /start and /status
RECURSIVE ReplyFrom(_, _, _, _)
ReplyFrom(g, result, i, send) ==
    IF i > Len(result) THEN g
    ELSE ReplyFrom(
           IF IsCommand(result[i].text)
           THEN [g EXCEPT !.sent =
                    @ \o Tagged(send_telegram_message(g.use_telegram, send[i]).requests, 0)]
           ELSE g,
           result, i + 1, send)

\* handle_telegram_updates without the test of lines 669-670
handle_telegram_updates_NoGuard(g, queue, u) ==
    LET g1 == [g EXCEPT !.sent =
                  Append(@, [op |-> "getUpdates", outcome |-> u.get, alert |-> 0])]
    IN  IF u.get # "ok" \/ queue = << >> THEN [g |-> g1, queue |-> queue]
        ELSE LET g2 == ReplyFrom(g1, queue, 1, u.send)
                 g3 == [g2 EXCEPT !.sent =
                          Append(@, [op |-> "getUpdatesOffset", outcome |-> u.ack,
                                     alert |-> 0])]
             IN  [g |-> g3, queue |-> IF u.ack = "ok" THEN << >> ELSE queue]

\* handle_telegram_updates: u.get is what the getUpdates request meets, u.send
\* what each reply meets, u.ack what the request with the offset meets.  The
\* result is the globals and the queue the service is left with.
handle_telegram_updates(g, queue, u) ==
    IF ~g.use_telegram THEN [g |-> g, queue |-> queue]
    ELSE LET g1 == [g EXCEPT !.sent =
                       Append(@, [op |-> "getUpdates", outcome |-> u.get, alert |-> 0])]
         IN  IF u.get # "ok" \/ queue = << >> THEN [g |-> g1, queue |-> queue]
             ELSE LET g2 == ReplyFrom(g1, queue, 1, u.send)
                      g3 == [g2 EXCEPT !.sent =
                               Append(@, [op |-> "getUpdatesOffset", outcome |-> u.ack,
                                          alert |-> 0])]
                  IN  [g |-> g3, queue |-> IF u.ack = "ok" THEN << >> ELSE queue]

----------------------------------------------------------------------------
(* The state of the program and the steps of main() *)

\* a local that holds nothing
Idle == [kind |-> "idle", body |-> << >>]
NoData == [chain_id |-> None, token_address |-> None, resp |-> Idle]

\* the globals as the operators above take them; a step starts with nothing
\* printed and nothing sent
G ==
    [ use_telegram |-> USE_TELEGRAM, stats |-> stats,
      seen_ads |-> seen_ads, seen_boosts |-> seen_boosts, seen_orders |-> seen_orders,
      seen_profiles |-> seen_profiles, profile_headers |-> profile_headers,
      profile_socials |-> profile_socials, known_tokens |-> known_tokens,
      alerts |-> << >>, sent |-> << >>, emitted |-> emitted ]

\* the step ends with the globals g; the errors counter is bounded
Commit(g) ==
    /\ g.stats.errors <= MaxErrors
    /\ stats' = g.stats
    /\ seen_ads' = g.seen_ads
    /\ seen_boosts' = g.seen_boosts
    /\ seen_orders' = g.seen_orders
    /\ seen_profiles' = g.seen_profiles
    /\ profile_headers' = g.profile_headers
    /\ profile_socials' = g.profile_socials
    /\ known_tokens' = g.known_tokens
    /\ alerts' = g.alerts
    /\ sent' = g.sent
    /\ emitted' = g.emitted
    /\ UNCHANGED USE_TELEGRAM

\* what the alerts of one step can meet under the environment E
OracleVals(E) == [enrich : E.enrich, tg : E.tg]
Oracles(E, n) == [1..n -> OracleVals(E)]
AnyOracle(E) == [i \in 1..MaxFeedLen |-> CHOOSE o \in OracleVals(E) : TRUE]

KindsOf(resps) == {r.kind : r \in resps}
Failed(kind) == [kind |-> kind, body |-> << >>]

Init ==
    /\ pc = "main"
    /\ USE_TELEGRAM \in BOOLEAN
    /\ stats = [polls |-> 0, ads_detected |-> 0, boosts_detected |-> 0,
                orders_detected |-> 0, errors |-> 0]
    /\ seen_ads = {}
    /\ seen_boosts = << >>
    /\ seen_orders = << >>
    /\ seen_profiles = {}
    /\ profile_headers = << >>
    /\ profile_socials = << >>
    /\ known_tokens = {}
    /\ ads = Idle
    /\ profiles = Idle
    /\ boosts = Idle
    /\ todo = {}
    /\ tg_queue = << >>
    /\ tg_next_id = 1
    /\ alerts = << >>
    /\ sent = << >>
    /\ ran = << >>
    /\ emitted = [k \in Kinds |-> [key \in Keys |-> 0]]
    /\ data = NoData

\* lines 746-752: the startup message
main_startup(E) ==
    /\ pc = "main"
    /\ IF USE_TELEGRAM
       THEN \E out \in E.tgreq :
              sent' = Tagged(send_telegram_message(USE_TELEGRAM, out).requests, 0)
       ELSE sent' = << >>
    /\ pc' = "init_ads"
    /\ UNCHANGED << USE_TELEGRAM, stats, seen_ads, seen_boosts, seen_orders,
                    seen_profiles, profile_headers, profile_socials, known_tokens,
                    ads, profiles, boosts, todo, tg_queue, tg_next_id, alerts, ran,
                    emitted, data >>

\* initialize(), lines 598-606
initialize_ads(E) ==
    /\ pc = "init_ads"
    /\ \E resp \in E.ads[0] :
         LET f == fetch_json(resp)
         IN  /\ Commit(InitializeAds([G EXCEPT !.stats.errors = @ + f.errors], f.value))
             /\ ads' = resp
    /\ pc' = "init_profiles"
    /\ UNCHANGED << profiles, boosts, todo, tg_queue, tg_next_id, ran, data >>

\* initialize(), lines 609-635
initialize_profiles(E) ==
    /\ pc = "init_profiles"
    /\ \E resp \in E.profiles[0] :
         LET f == fetch_json(resp)
         IN  /\ Commit(InitializeProfiles([G EXCEPT !.stats.errors = @ + f.errors], f.value))
             /\ profiles' = resp
    /\ ads' = Idle
    /\ pc' = "init_boosts"
    /\ UNCHANGED << boosts, todo, tg_queue, tg_next_id, ran, data >>

\* initialize(), lines 638-650; line 655 takes list(known_tokens)
initialize_boosts(E) ==
    /\ pc = "init_boosts"
    /\ \E resp \in E.boosts[0] :
         LET f == fetch_json(resp)
             g == InitializeBoosts([G EXCEPT !.stats.errors = @ + f.errors], f.value)
         IN  /\ Commit(g)
             /\ boosts' = resp
             /\ todo' = g.known_tokens
             /\ pc' = IF g.known_tokens = {} THEN "poll" ELSE "init_orders"
    /\ profiles' = Idle
    /\ UNCHANGED << ads, tg_queue, tg_next_id, ran, data >>

\* initialize(), one pass of the loop of lines 655-664
initialize_orders(E) ==
    /\ pc = "init_orders"
    /\ \E key \in todo : \E resp \in E.orders[0] :
         /\ Commit(InitializeOrdersOf(G, key[2], resp))
         /\ data' = [chain_id |-> key[1], token_address |-> key[2], resp |-> resp]
         /\ todo' = todo \ {key}
         /\ pc' = IF todo \ {key} = {} THEN "poll" ELSE "init_orders"
    /\ boosts' = Idle
    /\ UNCHANGED << ads, profiles, tg_queue, tg_next_id, ran >>

\* line 762
main_poll(E) ==
    /\ pc = "poll"
    /\ stats.polls < E.maxPolls
    /\ stats' = [stats EXCEPT !.polls = @ + 1]
    /\ ran' = << >>
    /\ alerts' = << >>
    /\ sent' = << >>
    /\ ads' = Idle /\ profiles' = Idle /\ boosts' = Idle /\ data' = NoData
    /\ pc' = "listen"
    /\ UNCHANGED << USE_TELEGRAM, seen_ads, seen_boosts, seen_orders, seen_profiles,
                    profile_headers, profile_socials, known_tokens, todo, tg_queue,
                    tg_next_id, emitted >>

ListenDue(polls) == polls % 3 = 0
\* line 782 with 4 for 5
OrdersDue_Every4(polls) == polls % 4 = 0
OrdersDue(polls) == polls % 5 = 0
StatusDue(polls) == polls % 10 = 0

\* the updates users send between two polls of the listener
Arrived(texts, next_id) ==
    [i \in 1..Len(texts) |-> [update_id |-> next_id + i - 1, text |-> texts[i]]]

\* lines 765-766
main_listen(E) ==
    /\ pc = "listen"
    /\ IF ListenDue(stats.polls)
       THEN \E texts \in E.arrive :
              /\ tg_next_id + Len(texts) <= MaxUpdates + 1
              /\ USE_TELEGRAM \/ texts = << >>
              /\ LET queue == tg_queue \o Arrived(texts, tg_next_id)
                 IN  \E get \in E.tgreq, ack \in E.tgreq,
                        send \in [1..Len(queue) -> E.tgreq] :
                       LET h == handle_telegram_updates(G, queue,
                                    [get |-> get, send |-> send, ack |-> ack])
                       IN  /\ Commit(h.g)
                           /\ tg_queue' = h.queue
              /\ tg_next_id' = tg_next_id + Len(texts)
              /\ ran' = Append(ran, "handle_telegram_updates")
       ELSE /\ Commit(G)
            /\ UNCHANGED << tg_queue, tg_next_id, ran >>
    /\ pc' = "fetch"
    /\ UNCHANGED << ads, profiles, boosts, todo, data >>

\* lines 769-771: the three fetches; each body is read by its detector
main_fetch(E) ==
    /\ pc = "fetch"
    /\ \E ka \in KindsOf(E.ads[stats.polls]), kp \in KindsOf(E.profiles[stats.polls]),
          kb \in KindsOf(E.boosts[stats.polls]) :
         /\ Commit([G EXCEPT !.stats.errors = @ + fetch_json(Failed(ka)).errors
                                                + fetch_json(Failed(kp)).errors
                                                + fetch_json(Failed(kb)).errors])
         /\ ads' = Failed(ka)
         /\ profiles' = Failed(kp)
         /\ boosts' = Failed(kb)
    /\ ran' = Append(ran, "fetch_json")
    /\ pc' = "ads"
    /\ UNCHANGED << todo, tg_queue, tg_next_id, data >>

\* lines 774-775: if ads: process_ads(ads)
AdsStep(g, v, oracle) == IF Truthy(v) THEN process_ads(g, v, oracle) ELSE g

main_ads(E) ==
    /\ pc = "ads"
    /\ \E resp \in E.ads[stats.polls] :
         /\ resp.kind = ads.kind
         /\ LET v == fetch_json(resp).value
                n == Len(AdsStep(G, v, AnyOracle(E)).alerts)
            IN  \E oracle \in Oracles(E, n) :
                  /\ Commit(AdsStep(G, v, oracle))
                  /\ ran' = IF Truthy(v) THEN Append(ran, "process_ads") ELSE ran
         /\ ads' = resp
    /\ pc' = "profiles"
    /\ UNCHANGED << profiles, boosts, todo, tg_queue, tg_next_id, data >>

\* lines 776-777: if profiles: process_profiles(profiles)
ProfilesStep(g, v, oracle) == IF Truthy(v) THEN process_profiles(g, v, oracle) ELSE g

main_profiles(E) ==
    /\ pc = "profiles"
    /\ \E resp \in E.profiles[stats.polls] :
         /\ resp.kind = profiles.kind
         /\ LET v == fetch_json(resp).value
                n == Len(ProfilesStep(G, v, AnyOracle(E)).alerts)
            IN  \E oracle \in Oracles(E, n) :
                  /\ Commit(ProfilesStep(G, v, oracle))
                  /\ ran' = IF Truthy(v) THEN Append(ran, "process_profiles") ELSE ran
         /\ profiles' = resp
    /\ ads' = Idle
    /\ pc' = "boosts"
    /\ UNCHANGED << boosts, todo, tg_queue, tg_next_id, data >>

\* lines 778-779: if boosts: process_boosts(boosts)
BoostsStep(g, v, oracle) == IF Truthy(v) THEN process_boosts(g, v, oracle) ELSE g

main_boosts(E) ==
    /\ pc = "boosts"
    /\ \E resp \in E.boosts[stats.polls] :
         /\ resp.kind = boosts.kind
         /\ LET v == fetch_json(resp).value
                n == Len(BoostsStep(G, v, AnyOracle(E)).alerts)
            IN  \E oracle \in Oracles(E, n) :
                  /\ Commit(BoostsStep(G, v, oracle))
                  /\ ran' = IF Truthy(v) THEN Append(ran, "process_boosts") ELSE ran
         /\ boosts' = resp
    /\ profiles' = Idle
    /\ pc' = "check"
    /\ UNCHANGED << ads, todo, tg_queue, tg_next_id, data >>

\* the tokens of one run of check_orders taken from the tokens that have
\* raised an AD or a PROFILE alert or were seeded as such
OrderTargets_Alerted(g) == g.seen_ads \cup g.seen_profiles

\* line 540: list(known_tokens), the tokens one run of check_orders polls
OrderTargets(g) == g.known_tokens

\* lines 782-783 and 540: check_orders is entered, list(known_tokens) is taken
main_orders(E) ==
    /\ pc = "check"
    /\ Commit(G)
    /\ IF OrdersDue(stats.polls)
       THEN /\ ran' = Append(ran, "check_orders")
            /\ todo' = OrderTargets(G)
            /\ pc' = IF OrderTargets(G) = {} THEN "status" ELSE "orders"
       ELSE /\ UNCHANGED << ran, todo >>
            /\ pc' = "status"
    /\ boosts' = Idle
    /\ UNCHANGED << ads, profiles, tg_queue, tg_next_id, data >>

\* check_orders(), one pass of the loop of lines 540-590
check_orders(E) ==
    /\ pc = "orders"
    /\ \E key \in todo : \E resp \in E.orders[stats.polls] :
         /\ LET n == Len(CheckOrdersOf(G, key[1], key[2], resp, AnyOracle(E)).alerts)
            IN  \E oracle \in Oracles(E, n) :
                  Commit(CheckOrdersOf(G, key[1], key[2], resp, oracle))
         /\ data' = [chain_id |-> key[1], token_address |-> key[2], resp |-> resp]
         /\ todo' = todo \ {key}
         /\ pc' = IF todo \ {key} = {} THEN "status" ELSE "orders"
    /\ UNCHANGED << ads, profiles, boosts, tg_queue, tg_next_id, ran >>

\* lines 786-790: the status line, then the sleep
main_status(E) ==
    /\ pc = "status"
    /\ Commit(G)
    /\ ran' = IF StatusDue(stats.polls) THEN Append(ran, "status") ELSE ran
    /\ data' = NoData
    /\ pc' = "poll"
    /\ UNCHANGED << ads, profiles, boosts, todo, tg_queue, tg_next_id >>

Next(E) ==
    \/ main_startup(E)
    \/ initialize_ads(E)
    \/ initialize_profiles(E)
    \/ initialize_boosts(E)
    \/ initialize_orders(E)
    \/ main_poll(E)
    \/ main_listen(E)
    \/ main_fetch(E)
    \/ main_ads(E)
    \/ main_profiles(E)
    \/ main_boosts(E)
    \/ main_orders(E)
    \/ check_orders(E)
    \/ main_status(E)


\* The JSON an endpoint can answer with status 200: null, an empty list or
\* object, an object where a list is expected, a list where an object is
\* expected, a list holding an element that is not an object, a record with a
\* string where a number is expected.
Shapes == {"absent", "empty", "object", "list", "nonrecord", "wrongtype"}

\* whether the call made at this place of the loop raises on such an answer:
\* ad.get / profile.get / boost.get / order.get on a non-dict (lines 378, 423,
\* 488, 550), data.get on a list (line 548), a str compared with an int (lines
\* 501, 554)
RaisesOn(at, shape) ==
    CASE at \in {"ads", "profiles"} -> shape = "nonrecord"
      [] at = "boosts" -> shape \in {"nonrecord", "wrongtype"}
      [] at = "orders" -> shape \in {"list", "nonrecord", "wrongtype"}
      [] OTHER -> FALSE

\* lines 760-794: main catches KeyboardInterrupt only, so an exception raised
\* by a detector or by check_orders ends the loop
main_raises ==
    /\ pc \in {"ads", "profiles", "boosts", "orders"}
    /\ pc = "ads" => ads.kind = "ok"
    /\ pc = "profiles" => profiles.kind = "ok"
    /\ pc = "boosts" => boosts.kind = "ok"
    /\ \E shape \in Shapes :
         /\ RaisesOn(pc, shape)
         /\ data' = [chain_id |-> None, token_address |-> None,
                     resp |-> [kind |-> shape, body |-> << >>]]
    /\ pc' = "raised"
    /\ UNCHANGED << USE_TELEGRAM, stats, seen_ads, seen_boosts, seen_orders,
                    seen_profiles, profile_headers, profile_socials, known_tokens,
                    ads, profiles, boosts, todo, tg_queue, tg_next_id, alerts, sent,
                    ran, emitted >>

\* the loop fed by endpoints that can answer any of the Shapes
NextAnyShape(E) == Next(E) \/ main_raises

----------------------------------------------------------------------------
(* Environments: what the two APIs may answer *)

Ad(chain_id, token_address) == [chainId |-> chain_id, tokenAddress |-> token_address]
Profile(chain_id, token_address, og, header, icon, links) ==
    [ chainId |-> chain_id, tokenAddress |-> token_address, openGraph |-> og,
      header |-> header, icon |-> icon, links |-> links ]
Boost(chain_id, token_address, total, amount) ==
    [ chainId |-> chain_id, tokenAddress |-> token_address, totalAmount |-> total,
      amount |-> amount ]
Order(ts, type, status) == [paymentTimestamp |-> ts, type |-> type, status |-> status]
Pair(name, symbol, price) == [name |-> name, symbol |-> symbol, priceUsd |-> price]

\* the answers of a feed whose snapshots hold up to n of the records recs:
\* status 200 with each snapshot, and a failure of each kind in kinds (its
\* body, which the program must not read, holds a record)
Answers(recs, n, kinds) ==
    {[kind |-> "ok", body |-> b] : b \in SeqUpTo(recs, n)}
      \cup {[kind |-> k, body |-> << CHOOSE r \in recs : TRUE >>] : k \in kinds}

\* the same answers at every poll (poll 0 is initialize)
EveryPoll(n, S) == [i \in 0..n |-> S]
\* the answers S at the polls in on, the answers T at the others
AtPolls(n, on, S, T) == [i \in 0..n |-> IF i \in on THEN S ELSE T]

EnrichOk == [kind |-> "ok", body |-> << Pair("Tok", "TK", "0.5") >>]
EnrichBig == [kind |-> "ok", body |-> << Pair("Tok", "TK", "1234.5") >>]
EnrichMid == [kind |-> "ok", body |-> << Pair("Tok", "TK", "12.5") >>]
EnrichOdd == [kind |-> "ok", body |-> << Pair("Tok", "TK", "abc") >>]
EnrichNone == [kind |-> "http", body |-> << >>]

TgMixed == { <<"ok", "ok", "ok">>, <<"fail", "ok", "ok">>,
             <<"exc", "fail", "ok">>, <<"fail", "exc", "fail">> }
TgPlain == { <<"ok", "ok", "ok">>, <<"fail", "fail", "ok">> }

(* Spec: all four feeds, few records each, every kind of failure *)
EnvSpec ==
    [ maxPolls |-> MaxPolls,
      ads      |-> EveryPoll(MaxPolls, Answers({Ad("eth", "0xA")}, 1, {"http", "exc"})),
      profiles |-> EveryPoll(MaxPolls,
                     Answers({Profile("eth", "0xA", None, "img1", None, "links1")}, 1,
                             {"http"})),
      boosts   |-> EveryPoll(MaxPolls,
                     Answers({Boost("sol", "0xA", Some(5), Some(5))}, 1, {"http"})),
      orders   |-> EveryPoll(MaxPolls,
                     Answers({Order(Some(3), "tokenAd", "approved")}, 1,
                             {"http", "badjson"})),
      enrich   |-> {EnrichOk, EnrichNone},
      tg       |-> TgMixed,
      tgreq    |-> {"ok", "fail"},
      arrive   |-> { << >>, << "/status" >> } ]

Spec == Init /\ [][Next(EnvSpec)]_vars

(* SpecSeen: the ads and profiles feeds change during the first polls *)
SeenAds == {Ad("eth", "0xA"), Ad("sol", "0xA"), Ad("eth", None)}
SeenProfiles ==
    { Profile("eth", "0xA", "img1", "img2", None, "links1"),
      Profile("eth", "0xA", None, "img2", "img1", None),
      Profile("eth", "0xA", None, None, None, None),
      Profile(None, "0xA", "img1", None, None, None) }
Quiet(rec) == {[kind |-> "http", body |-> << rec >>]}

EnvSeen ==
    [ maxPolls |-> MaxPolls,
      ads      |-> AtPolls(MaxPolls, 0..2, Answers(SeenAds, MaxFeedLen, {"http"}),
                           Quiet(Ad("eth", "0xA"))),
      profiles |-> AtPolls(MaxPolls, 0..2, Answers(SeenProfiles, MaxFeedLen, {"http"}),
                           Quiet(Profile("eth", "0xA", None, None, None, None))),
      boosts   |-> EveryPoll(MaxPolls, Quiet(Boost("eth", "0xA", Some(5), Null))),
      orders   |-> EveryPoll(MaxPolls, Quiet(Order(Some(3), "tokenAd", "approved"))),
      enrich   |-> {EnrichOk, EnrichNone},
      tg       |-> TgPlain,
      tgreq    |-> {"ok"},
      arrive   |-> { << >> } ]

SpecSeen == Init /\ [][Next(EnvSeen)]_vars

(* SpecBoost: the boosts feed presents one token's totals 5, 5, 12, 12, 20 in *)
(* five successive polls; initialize finds no boost of that token             *)
BoostTotals == << 5, 5, 12, 12, 20 >>
BoostScenario ==
    [ n \in 0..Len(BoostTotals) |->
        IF n = 0 THEN Answers({Boost("eth", "0xB", Some(5), Null),
                               Boost("sol", "0xB", Some(12), Null)}, MaxFeedLen, {"http"})
        ELSE { [kind |-> "ok", body |-> pre \o << Boost("eth", "0xA", Some(BoostTotals[n]), amt) >>] :
                 pre \in SeqUpTo({Boost("eth", "0xB", Some(12), Null)}, MaxFeedLen - 1),
                 amt \in {Null, Some(1)} } ]

EnvBoost ==
    [ maxPolls |-> Len(BoostTotals),
      ads      |-> EveryPoll(Len(BoostTotals), Answers({Ad("eth", "0xA")}, 1, {"http"})),
      profiles |-> EveryPoll(Len(BoostTotals),
                     Quiet(Profile("eth", "0xA", None, None, None, None))),
      boosts   |-> BoostScenario,
      orders   |-> EveryPoll(Len(BoostTotals),
                     Answers({Order(Some(3), "tokenAd", "approved")}, 1, {"http"})),
      enrich   |-> {EnrichOk, EnrichNone},
      tg       |-> TgPlain,
      tgreq    |-> {"ok"},
      arrive   |-> { << >> } ]

SpecBoost == Init /\ [][Next(EnvBoost)]_vars

(* SpecOrders: one token, known from initialize or from the first poll, whose *)
(* orders were paid before the start, at it or after it; check_orders runs    *)
(* at polls 5 and 10                                                          *)
OrderPolls == 10
OrderTimes == {1, BOT_START_MS, 3, 4}
OrderRecs == {Order(Some(t), "tokenAd", "approved") : t \in OrderTimes}
             \cup {Order(Null, "tokenAd", "approved"),
                   Order(Some(3), "tokenProfile", "processing")}

EnvOrders ==
    [ maxPolls |-> OrderPolls,
      ads      |-> EveryPoll(OrderPolls, Answers({Ad("eth", "0xA")}, 1, {"http"})),
      profiles |-> EveryPoll(OrderPolls,
                     Quiet(Profile("eth", "0xA", None, None, None, None))),
      boosts   |-> EveryPoll(OrderPolls, Quiet(Boost("eth", "0xA", Some(5), Null))),
      orders   |-> EveryPoll(OrderPolls, Answers(OrderRecs, MaxFeedLen, {"http"})),
      enrich   |-> {EnrichOk},
      tg       |-> TgPlain,
      tgreq    |-> {"ok"},
      arrive   |-> { << >> } ]

SpecOrders == Init /\ [][Next(EnvOrders)]_vars

(* SpecDriver: thirty polls of feeds that answer one record, an empty list or *)
(* HTTP 500                                                                   *)
EnvDriver ==
    [ maxPolls |-> DriverPolls,
      ads      |-> EveryPoll(DriverPolls, Answers({Ad("eth", "0xA")}, 1, {"http"})),
      profiles |-> EveryPoll(DriverPolls,
                     Answers({Profile("eth", "0xA", None, "img1", None, None)}, 1,
                             {"http"})),
      boosts   |-> EveryPoll(DriverPolls,
                     Answers({Boost("eth", "0xA", Some(5), Null)}, 1, {"http"})),
      orders   |-> EveryPoll(DriverPolls, Quiet(Order(Some(3), "tokenAd", "approved"))),
      enrich   |-> {EnrichOk},
      tg       |-> { <<"ok", "ok", "ok">> },
      tgreq    |-> {"ok"},
      arrive   |-> { << >> } ]

SpecDriver == Init /\ [][Next(EnvDriver)]_vars

(* SpecRestart: one ad, one profile and one boost of total 5 are in the feeds *)
(* when the process starts; the fetches of initialize succeed or fail        *)
StartupTotal == 5
AtStartup(rec, kinds) == {[kind |-> k, body |-> << rec >>] : k \in kinds}

EnvRestart ==
    [ maxPolls |-> MaxPolls,
      ads      |-> AtPolls(MaxPolls, {0}, AtStartup(Ad("eth", "0xA"), {"ok", "http", "exc"}),
                           Answers({Ad("eth", "0xA")}, 1, {"http"})),
      profiles |-> AtPolls(MaxPolls, {0},
                           AtStartup(Profile("eth", "0xA", None, "img1", None, None),
                                     {"ok", "http"}),
                           Answers({Profile("eth", "0xA", None, "img1", None, None)}, 1,
                                   {"http"})),
      boosts   |-> AtPolls(MaxPolls, {0},
                           AtStartup(Boost("eth", "0xA", Some(StartupTotal), Null),
                                     {"ok", "http"}),
                           Answers({Boost("eth", "0xA", Some(StartupTotal), Null),
                                    Boost("eth", "0xA", Some(StartupTotal + 2), Null)}, 1,
                                   {"http"})),
      orders   |-> EveryPoll(MaxPolls, Quiet(Order(Some(3), "tokenAd", "approved"))),
      enrich   |-> {EnrichOk},
      tg       |-> TgPlain,
      tgreq    |-> {"ok"},
      arrive   |-> { << >> } ]

SpecRestart == Init /\ [][Next(EnvRestart)]_vars

(* SpecListen: the command listener runs twice, at polls 3 and 6; a command   *)
(* arrives, and the requests of the listener succeed or fail                  *)
ListenPolls == 6

EnvListen ==
    [ maxPolls |-> ListenPolls,
      ads      |-> EveryPoll(ListenPolls, Answers({Ad("eth", "0xA")}, 1, {"http"})),
      profiles |-> EveryPoll(ListenPolls,
                     Quiet(Profile("eth", "0xA", None, None, None, None))),
      boosts   |-> EveryPoll(ListenPolls, Quiet(Boost("eth", "0xA", Some(5), Null))),
      orders   |-> EveryPoll(ListenPolls, Quiet(Order(Some(3), "tokenAd", "approved"))),
      enrich   |-> {EnrichOk, EnrichBig, EnrichMid, EnrichOdd},
      tg       |-> { <<"ok", "ok", "ok">> },
      tgreq    |-> {"ok", "fail"},
      arrive   |-> { << >>, << "/status" >>, << "/start" >>, << "hello" >> } ]

SpecListen == Init /\ [][Next(EnvListen)]_vars

(* SpecAnyShape: the feeds of SpecDriver for a few polls, and endpoints that  *)
(* answer status 200 with JSON of any shape                                   *)
EnvAnyShape == [EnvDriver EXCEPT !.maxPolls = MaxPolls]

SpecAnyShape == Init /\ [][NextAnyShape(EnvAnyShape)]_vars

(* SpecKnown: each feed names a token that no other feed names; one boost has *)
(* no totalAmount and one has the total 0; the profiles and the boosts feed    *)
(* answer at a few polls only; the run ends on an order check                 *)
KnownChecks == 2
KnownPolls == 5 * KnownChecks
NoTotalBoost == Boost("sol", "0xB", Null, Null)
ZeroBoost == Boost("eth", "0xB", Some(0), Null)

\* the polls (0 is initialize) at which the profiles and the boosts feed answer
ProfilePolls == {0, 6}
BoostPolls == {0, 3, 5}

EnvKnown ==
    [ maxPolls |-> KnownPolls,
      ads      |-> EveryPoll(KnownPolls, {[kind |-> "ok", body |-> << Ad("eth", "0xA") >>]}),
      profiles |-> AtPolls(KnownPolls, ProfilePolls,
                     Answers({Profile("sol", "0xA", None, None, None, None)}, 1, {"http"}),
                     Quiet(Profile("sol", "0xA", None, None, None, None))),
      boosts   |-> AtPolls(KnownPolls, BoostPolls,
                     Answers({NoTotalBoost, ZeroBoost}, 1, {"http"}), Quiet(ZeroBoost)),
      orders   |-> EveryPoll(KnownPolls, Answers({Order(Some(3), "tokenAd", "approved")}, 1, {})),
      enrich   |-> {EnrichOk},
      tg       |-> { <<"ok", "ok", "ok">> },
      tgreq    |-> {"ok"},
      arrive   |-> { << >> } ]

SpecKnown == Init /\ [][Next(EnvKnown)]_vars

\* the same loop when the process is never suspended for good: main is one
\* thread, each of its steps returns (every request has a timeout) and the next
\* one follows
LiveKnown == Init /\ [][Next(EnvKnown)]_vars /\ WF_vars(Next(EnvKnown))

(* SpecStartup: the token is advertised when the process starts and its order *)
(* list then holds orders paid up to StartupLatest, in any position; the      *)
(* later checks find those orders again, and a later one                      *)
StartupLatest == BOT_START_MS + 1
PaidAt(t) == Order(Some(t), "tokenAd", "approved")
StartupOrders ==
    { << PaidAt(StartupLatest), PaidAt(BOT_START_MS) >>,
      << PaidAt(BOT_START_MS), PaidAt(StartupLatest) >>,
      << PaidAt(StartupLatest) >> }

EnvStartup ==
    [ maxPolls |-> MaxPolls,
      ads      |-> EveryPoll(MaxPolls, {[kind |-> "ok", body |-> << Ad("eth", "0xA") >>]}),
      profiles |-> EveryPoll(MaxPolls,
                     Answers({Profile("eth", "0xA", None, "img1", None, None)}, 1, {"http"})),
      boosts   |-> EveryPoll(MaxPolls, Answers({Boost("sol", "0xB", Some(5), Null)}, 1, {"http"})),
      orders   |-> AtPolls(MaxPolls, {0},
                     {[kind |-> "ok", body |-> b] : b \in StartupOrders},
                     Answers({PaidAt(BOT_START_MS), PaidAt(StartupLatest),
                              PaidAt(StartupLatest + 1)}, MaxFeedLen, {"http"})),
      enrich   |-> {EnrichOk},
      tg       |-> TgPlain,
      tgreq    |-> {"ok", "fail"},
      arrive   |-> { << >> } ]

SpecStartup == Init /\ [][Next(EnvStartup)]_vars

----------------------------------------------------------------------------
(* Claims *)

KeyOf(rec) == <<rec.chainId, rec.tokenAddress>>
AlertKey(a) == <<a.chain, a.addr>>

\* C1: over the whole run an AD alert is raised at most once for a (chain,
\* token) identity and a PROFILE alert at most once; an identity that has
\* raised one is in its seen-set, and no step raises two for one identity.
C1_FirstOccurrenceOnly ==
    /\ \A key \in Keys :
         /\ emitted["AD"][key] <= 1
         /\ emitted["PROFILE"][key] <= 1
         /\ emitted["AD"][key] = 1 => key \in seen_ads
         /\ emitted["PROFILE"][key] = 1 => key \in seen_profiles
    /\ \A i, j \in DOMAIN alerts :
         (i # j /\ alerts[i].kind \in {"AD", "PROFILE"} /\ alerts[i].kind = alerts[j].kind)
           => AlertKey(alerts[i]) # AlertKey(alerts[j])

\* an identity that raised its AD alert in an earlier step is presented to
\* process_ads again, twice in one snapshot, and nothing is raised
C1_Witness ==
    /\ pc = "profiles"
    /\ ads.kind = "ok"
    /\ Len(ads.body) = 2
    /\ HasIdentity(ads.body[1])
    /\ ads.body[1] = ads.body[2]
    /\ emitted["AD"][KeyOf(ads.body[1])] = 1
    /\ alerts = << >>

\* the last record of a snapshot that carries an image for key (0 if none)
LastImageAt(body, key) ==
    LET S == {i \in DOMAIN body : HasIdentity(body[i]) /\ KeyOf(body[i]) = key
                                   /\ ImageUrl(body[i]) # None}
    IN  IF S = {} THEN 0 ELSE CHOOSE i \in S : \A j \in S : j <= i

\* the snapshot the profile code has just walked, if it walked one
ProfilesWalked ==
    IF pc = "init_boosts" /\ Truthy(fetch_json(profiles).value) THEN profiles.body
    ELSE IF pc = "boosts" /\ Truthy(fetch_json(profiles).value) THEN profiles.body
    ELSE << >>

\* C7: after process_profiles or initialize has walked a profiles snapshot,
\* the header cache holds, for every key the snapshot carries an image for,
\* the image of the last such record, whether or not the profile was new.
C7_LastWriteWins ==
    \A key \in Keys :
      LET i == LastImageAt(ProfilesWalked, key)
      IN  i # 0 => /\ key \in DOMAIN profile_headers
                   /\ profile_headers[key] = ImageUrl(ProfilesWalked[i])

\* process_profiles has met an already seen profile twice in one snapshot,
\* with two images, and the cache holds the second
C7_Witness ==
    /\ pc = "boosts"
    /\ profiles.kind = "ok"
    /\ Len(profiles.body) = 2
    /\ HasIdentity(profiles.body[1])
    /\ KeyOf(profiles.body[1]) = KeyOf(profiles.body[2])
    /\ ImageUrl(profiles.body[1]) = "img1"
    /\ ImageUrl(profiles.body[2]) = "img2"
    /\ alerts = << >>
    /\ profile_headers[KeyOf(profiles.body[1])] = "img2"

\* the BOOST alerts of the last step for the token of the scenario
ScenarioBoostAlerts ==
    LET Mine(a) == a.kind = "BOOST" /\ a.chain = "eth" /\ a.addr = "0xA"
    IN  SelectSeq(alerts, Mine)

\* the polls whose process_boosts call has returned
BoostPollsDone ==
    IF pc \in {"check", "orders", "status", "poll"} THEN stats.polls
    ELSE IF stats.polls = 0 THEN 0 ELSE stats.polls - 1

\* the step that has just ended is the process_boosts call of poll n
AfterBoosts(n) == pc = "check" /\ stats.polls = n

\* one BOOST alert with this total and these previous and delta lines
OneBoostAlert(total, previous, delta) ==
    /\ Len(ScenarioBoostAlerts) = 1
    /\ ScenarioBoostAlerts[1].total = Some(total)
    /\ ScenarioBoostAlerts[1].previous = previous
    /\ ScenarioBoostAlerts[1].delta = delta

\* the part of C2 about when the alerts fire: at the totals 5, 12 and 20,
\* not at the repeated ones, three in all
BoostAlertsFireAt ==
    /\ emitted["BOOST"][<<"eth", "0xA">>] = (BoostPollsDone + 1) \div 2
    /\ (AfterBoosts(2) \/ AfterBoosts(4)) => ScenarioBoostAlerts = << >>

\* C2 (as amended): for totals 5, 5, 12, 12, 20 of a token with no stored
\* value, three BOOST alerts are raised, at 5, 12 and 20; the second and the
\* third carry the previous total and the delta (5, +7 and 12, +8), the first,
\* raised from a stored value of 0, carries neither.
C2_ThreeBoostsDeltasAfterFirst ==
    /\ BoostAlertsFireAt
    /\ AfterBoosts(1) => OneBoostAlert(5, Null, Null)
    /\ AfterBoosts(3) => OneBoostAlert(12, Some(5), Some(7))
    /\ AfterBoosts(5) => OneBoostAlert(20, Some(12), Some(8))

\* C2 (as stated): ... and each of the three alerts reports its delta: 5, 7, 8
C2_EachReportsDelta ==
    /\ BoostAlertsFireAt
    /\ AfterBoosts(1) => OneBoostAlert(5, Null, Some(5))
    /\ AfterBoosts(3) => OneBoostAlert(12, Some(5), Some(7))
    /\ AfterBoosts(5) => OneBoostAlert(20, Some(12), Some(8))

\* the fifth poll has raised the third alert, with its delta of 8
C2_Witness ==
    /\ AfterBoosts(5)
    /\ emitted["BOOST"][<<"eth", "0xA">>] = 3
    /\ OneBoostAlert(20, Some(12), Some(8))

\* the step that has just ended belongs to initialize
InInitialize ==
    pc \in {"init_ads", "init_profiles", "init_boosts", "init_orders"}
      \/ (pc = "poll" /\ stats.polls = 0)

\* the step that has just ended is a pass of check_orders over this answer
AfterCheckOrders(body) ==
    /\ pc \in {"orders", "status"}
    /\ data # NoData
    /\ data.resp = [kind |-> "ok", body |-> body]

OrderAlerts ==
    LET IsOrder(a) == a.kind = "ORDER" IN SelectSeq(alerts, IsOrder)

\* C3: no ORDER alert is ever raised for an order paid strictly before the
\* start of the process: initialize raises no alert at all, and every ORDER
\* alert of a check_orders pass carries a payment time at or after the start.
C3_NoOrderBeforeStart ==
    /\ InInitialize => alerts = << >> /\ \A key \in Keys : emitted["ORDER"][key] = 0
    /\ \A i \in DOMAIN alerts :
         alerts[i].kind = "ORDER" => alerts[i].paid_at[1] >= BOT_START_MS
    /\ \A body \in SeqUpTo(OrderRecs, MaxFeedLen) :
         AfterCheckOrders(body) =>
           \A i \in DOMAIN OrderAlerts : \E j \in DOMAIN body :
              /\ PaymentTimestamp(body[j]) >= BOT_START_MS
              /\ OrderAlerts[i].paid_at = Some(PaymentTimestamp(body[j]))

\* check_orders has met an order paid before the start, the only order of a
\* token with no stored timestamp, and has raised nothing
C3_Witness ==
    /\ AfterCheckOrders(<< Order(Some(1), "tokenAd", "approved") >>)
    /\ data.token_address \notin DOMAIN seen_orders
    /\ alerts = << >>

\* a pass of check_orders over this list of two orders of a token whose
\* stored timestamp is below t1
ChecksTwoOrders(t1, t2, body) ==
    /\ t1 < t2
    /\ BOT_START_MS <= t1
    /\ pc = "orders"
    /\ AfterCheckOrders(body)'
    /\ Get(seen_orders, data'.token_address, 0) < t1

\* two ORDER alerts, for t1 and then for t2, the second raised against t1
TwoOrderAlerts(t1, t2) ==
    /\ Len(alerts') = 2
    /\ alerts'[1].kind = "ORDER" /\ alerts'[1].paid_at = Some(t1)
    /\ alerts'[2].kind = "ORDER" /\ alerts'[2].paid_at = Some(t2)
    /\ alerts'[2].last_seen = Some(t1)
    /\ seen_orders'[data'.token_address] = t2

\* C4 (as amended): for one known token whose orders list presents T1 before
\* T2, T1 < T2, both at or after the start and the stored timestamp of the
\* token below T1, check_orders raises exactly two ORDER alerts, and the
\* stored timestamp the second one is compared with is T1.
C4_TwoOrdersAscending ==
    [][ \A t1, t2 \in OrderTimes :
          ChecksTwoOrders(t1, t2, << Order(Some(t1), "tokenAd", "approved"),
                                     Order(Some(t2), "tokenAd", "approved") >>)
            => TwoOrderAlerts(t1, t2) ]_vars

\* C4 (as stated): ... in whichever order the list presents the two orders
C4_TwoOrdersAnyOrder ==
    [][ \A t1, t2 \in OrderTimes :
          \A body \in { << Order(Some(t1), "tokenAd", "approved"),
                           Order(Some(t2), "tokenAd", "approved") >>,
                        << Order(Some(t2), "tokenAd", "approved"),
                           Order(Some(t1), "tokenAd", "approved") >> } :
             ChecksTwoOrders(t1, t2, body) => TwoOrderAlerts(t1, t2) ]_vars

\* check_orders has raised the two alerts, the second against the first
C4_Witness ==
    /\ AfterCheckOrders(<< Order(Some(3), "tokenAd", "approved"),
                           Order(Some(4), "tokenAd", "approved") >>)
    /\ Len(alerts) = 2
    /\ alerts[2].kind = "ORDER"
    /\ alerts[2].last_seen = Some(3)

\* C5 (as stated): every fetch that fails, by a status other than 200, by an
\* exception of the transport or by a body that does not parse, returns None
\* and adds one to the error counter; here for the first fetch of initialize.
C5_EveryFailureCounted ==
    (pc = "init_profiles" /\ ads.kind # "ok") =>
        /\ fetch_json(ads).value = PyNone
        /\ stats.errors = 1

\* what C6 compares: the seen-state, the known tokens, the profile cache and
\* the alerts of the step
Downstream(g) ==
    << g.seen_ads, g.seen_profiles, g.seen_boosts, g.seen_orders, g.known_tokens,
       g.profile_headers, g.profile_socials, g.alerts, g.emitted >>

DownstreamNow ==
    << seen_ads, seen_profiles, seen_boosts, seen_orders, known_tokens,
       profile_headers, profile_socials, alerts, emitted >>

EmptyList == PyList(<< >>)
EmptyAnswer == [kind |-> "ok", body |-> << >>]

\* C6: a step of initialize or of a poll whose fetch answers HTTP 500 ends,
\* and ends with the seen-ads, seen-profiles, seen-boosts, seen-orders, known
\* tokens, profile cache and alerts that the same step ends with from the same
\* state when the fetch returns an empty list.
C6_Http500AsEmptyList ==
    [][ /\ (pc = "init_ads" /\ ads'.kind = "http") =>
              pc' = "init_profiles" /\ DownstreamNow' = Downstream(InitializeAds(G, EmptyList))
        /\ (pc = "init_profiles" /\ profiles'.kind = "http") =>
              pc' = "init_boosts" /\ DownstreamNow' = Downstream(InitializeProfiles(G, EmptyList))
        /\ (pc = "init_boosts" /\ boosts'.kind = "http") =>
              pc' # pc /\ DownstreamNow' = Downstream(InitializeBoosts(G, EmptyList))
        /\ (pc = "init_orders" /\ data'.resp.kind = "http") =>
              DownstreamNow' =
                Downstream(InitializeOrdersOf(G, data'.token_address, EmptyAnswer))
        /\ (pc = "ads" /\ ads'.kind = "http") =>
              pc' = "profiles"
                /\ DownstreamNow' = Downstream(AdsStep(G, EmptyList, AnyOracle(EnvSpec)))
        /\ (pc = "profiles" /\ profiles'.kind = "http") =>
              pc' = "boosts"
                /\ DownstreamNow' = Downstream(ProfilesStep(G, EmptyList, AnyOracle(EnvSpec)))
        /\ (pc = "boosts" /\ boosts'.kind = "http") =>
              pc' = "check"
                /\ DownstreamNow' = Downstream(BoostsStep(G, EmptyList, AnyOracle(EnvSpec)))
        /\ (pc = "orders" /\ data'.resp.kind = "http") =>
              DownstreamNow' =
                Downstream(CheckOrdersOf(G, data'.chain_id, data'.token_address,
                                         EmptyAnswer, AnyOracle(EnvSpec)))
      ]_vars

\* the ads fetch of a poll has answered HTTP 500 with a body that names a token
\* not seen yet, and the ads step has ended with no alert
C6_Witness ==
    /\ pc = "profiles"
    /\ stats.polls >= 1
    /\ ads.kind = "http"
    /\ ads.body # << >>
    /\ KeyOf(ads.body[1]) \notin seen_ads
    /\ alerts = << >>

\* the requests of the last step made for its n-th alert with this operation
RequestsFor(n, op) == {i \in DOMAIN sent : sent[i].alert = n /\ sent[i].op = op}

\* C8 (as stated): an alert causes at most one request with the image and at
\* most one request with the text only, the latter only after the former has
\* failed.
C8_OnePhotoOneText ==
    \A n \in DOMAIN alerts :
       /\ Cardinality(RequestsFor(n, "sendPhoto")) <= 1
       /\ Cardinality(RequestsFor(n, "sendMessage")) <= 1
       /\ RequestsFor(n, "sendMessage") # {} =>
             \E i \in RequestsFor(n, "sendPhoto") : sent[i].outcome # "ok"

\* what a step leaves behind apart from the requests to the messaging service
Console(g) == [g EXCEPT !.sent = << >>, !.use_telegram = FALSE]
Configured == [G EXCEPT !.use_telegram = TRUE]
Unconfigured == [G EXCEPT !.use_telegram = FALSE]

\* the detector step about to be taken leaves the same behind, configured or not
SameDetection(Step(_, _, _), answers) ==
    \A resp \in answers :
       LET v == fetch_json(resp).value
           n == Len(Step(Unconfigured, v, AnyOracle(EnvSpec)).alerts)
       IN  \A oracle \in Oracles(EnvSpec, n) :
              Console(Step(Unconfigured, v, oracle)) = Console(Step(Configured, v, oracle))

SameOrders ==
    \A key \in todo : \A resp \in EnvSpec.orders[stats.polls] :
       LET n == Len(CheckOrdersOf(Unconfigured, key[1], key[2], resp,
                                  AnyOracle(EnvSpec)).alerts)
       IN  \A oracle \in Oracles(EnvSpec, n) :
              Console(CheckOrdersOf(Unconfigured, key[1], key[2], resp, oracle))
                = Console(CheckOrdersOf(Configured, key[1], key[2], resp, oracle))

\* C9: without the credential or the channel no request goes to the messaging
\* service, from the startup message, an alert or the command listener, and
\* each detector prints the alerts and leaves the state it leaves when the
\* service is configured.
C9_NoRequestSameDetection ==
    /\ ~USE_TELEGRAM => sent = << >>
    /\ pc = "ads" => SameDetection(AdsStep, EnvSpec.ads[stats.polls])
    /\ pc = "profiles" => SameDetection(ProfilesStep, EnvSpec.profiles[stats.polls])
    /\ pc = "boosts" => SameDetection(BoostsStep, EnvSpec.boosts[stats.polls])
    /\ pc = "orders" => SameOrders

\* unconfigured, the listener was due in this poll and a detector has printed
\* an alert; nothing was sent
C9_Witness ==
    /\ ~USE_TELEGRAM
    /\ ListenDue(stats.polls)
    /\ stats.polls >= 1
    /\ alerts # << >>
    /\ sent = << >>

\* what cycle n calls, in order, when the detectors a, p and b are the ones run
Schedule(n, a, p, b) ==
    (IF n % 3 = 0 THEN << "handle_telegram_updates" >> ELSE << >>)
      \o << "fetch_json" >>
      \o (IF a THEN << "process_ads" >> ELSE << >>)
      \o (IF p THEN << "process_profiles" >> ELSE << >>)
      \o (IF b THEN << "process_boosts" >> ELSE << >>)
      \o (IF n % 5 = 0 THEN << "check_orders" >> ELSE << >>)
      \o (IF n % 10 = 0 THEN << "status" >> ELSE << >>)

HasRun(f) == \E i \in DOMAIN ran : ran[i] = f

\* the cycle has ended: the next step increments the poll counter
CycleEnded == pc = "poll" /\ stats.polls >= 1

\* the poll counter starts at 0, is 0 throughout initialize and grows by one,
\* at the head of each cycle and nowhere else
CountsCycles ==
    /\ (pc = "poll" /\ pc' # pc) => stats'.polls = stats.polls + 1 /\ ran' = << >>
    /\ pc # "poll" => stats'.polls = stats.polls
    /\ (pc = "main" \/ InInitialize) => stats.polls = 0

\* C10 (as amended): the poll counter grows by one per cycle from 1; cycle n
\* runs the listener iff 3 divides n, before the fetches, then the ads,
\* profiles and boosts detectors in that order, each of them iff its feed was
\* fetched as a non-empty value, then the order checker iff 5 divides n, then
\* the status line iff 10 divides n.
C10_ScheduleSkipsEmptyFeeds ==
    /\ [][CountsCycles]_vars
    /\ [](CycleEnded => \E a, p, b \in BOOLEAN : ran = Schedule(stats.polls, a, p, b))
    /\ [](pc = "profiles" => (HasRun("process_ads") <=> Truthy(fetch_json(ads).value)))
    /\ [](pc = "boosts" => (HasRun("process_profiles") <=> Truthy(fetch_json(profiles).value)))
    /\ [](pc = "check" => (HasRun("process_boosts") <=> Truthy(fetch_json(boosts).value)))

\* C10 (as stated): ... the three detectors run on every cycle
C10_DetectorsEveryCycle ==
    CycleEnded => ran = Schedule(stats.polls, TRUE, TRUE, TRUE)

\* cycle 30 has run the listener, the fetches, the three detectors, the order
\* checker and the status line
C10_Witness ==
    /\ CycleEnded
    /\ stats.polls = 30
    /\ ran = << "handle_telegram_updates", "fetch_json", "process_ads", "process_profiles",
                "process_boosts", "check_orders", "status" >>

\* C11 (as stated): whatever the fetches of initialize answer, the ad, the
\* profile and the boost that were in the feeds at startup never raise an AD
\* or a PROFILE alert, and raise a BOOST alert only for a total above the one
\* the boost had at startup.
C11_OnlyLaterDeltas ==
    /\ emitted["AD"][<<"eth", "0xA">>] = 0
    /\ emitted["PROFILE"][<<"eth", "0xA">>] = 0
    /\ \A i \in DOMAIN alerts :
         (alerts[i].kind = "BOOST" /\ AlertKey(alerts[i]) = <<"eth", "0xA">>)
            => alerts[i].total[1] > StartupTotal

\* the replies to commands among the requests of the last step
Replies == {i \in DOMAIN sent : sent[i].op = "sendMessage"}

\* C12 (as stated): an update the listener has processed is never processed
\* again, whatever the requests of the listener meet: a run of the listener
\* answers no more commands than have arrived since the run before it.
C12_NoUpdateAnsweredAgain ==
    [][ pc = "listen" => Cardinality(Replies') <= tg_next_id' - tg_next_id ]_vars

\* C13 (as stated): whatever JSON the feeds and the orders endpoint answer,
\* no exception leaves a cycle: the loop is never ended by one.
C13_LoopNeverRaises == pc # "raised"

RECURSIVE SumOver(_, _)
SumOver(f, S) ==
    IF S = {} THEN 0
    ELSE LET x == CHOOSE y \in S : TRUE IN f[x] + SumOver(f, S \ {x})

\* the alerts of this kind raised since the start
EmittedOf(kind) == SumOver(emitted[kind], Keys)

\* C14 (as stated): ads_detected is the number of AD alerts raised since the
\* start, boosts_detected the number of BOOST alerts and orders_detected the
\* number of ORDER alerts.
C14_CountersCountTheirEvents ==
    /\ stats.ads_detected = EmittedOf("AD")
    /\ stats.boosts_detected = EmittedOf("BOOST")
    /\ stats.orders_detected = EmittedOf("ORDER")

\* C15 (as stated): the message sent for an alert has the event type of the
\* detector that raised it: AD, PROFILE, BOOST, and ORDER for every order type.
C15_MessageHasKindOfEvent ==
    USE_TELEGRAM =>
       \A i \in DOMAIN alerts : EventType(TitleWords(alerts[i])) = alerts[i].kind

\* C16: the known tokens include every key of seen_ads and of seen_profiles,
\* and for every address that has a stored boost total or a stored order
\* timestamp they include a (chain, token) pair with that address.
C16_KnownCoversSeen ==
    /\ seen_ads \subseteq known_tokens
    /\ seen_profiles \subseteq known_tokens
    /\ \A a \in (DOMAIN seen_boosts) \cup (DOMAIN seen_orders) :
          \E key \in known_tokens : key[2] = a

\* ads, profiles, boosts and orders have all been seen
C16_Witness ==
    /\ seen_ads # {}
    /\ seen_profiles # {}
    /\ DOMAIN seen_boosts # {}
    /\ DOMAIN seen_orders # {}
    /\ Cardinality(known_tokens) >= 2

\* C17: no step of initialize, of the detectors, of the order checker or of
\* the listener removes an element from the known tokens, from seen_ads or
\* from seen_profiles.
C17_SetsOnlyGrow ==
    [][ /\ known_tokens \subseteq known_tokens'
        /\ seen_ads \subseteq seen_ads'
        /\ seen_profiles \subseteq seen_profiles' ]_vars

\* process_ads has just added a second key to seen_ads
C17_Witness ==
    /\ pc = "profiles"
    /\ stats.polls >= 1
    /\ Cardinality(seen_ads) = 2
    /\ Len(alerts) = 1
    /\ alerts[1].kind = "AD"
    /\ seen_profiles # {}

\* the total of a boost record that initialize stores (line 644)
StoredTotal(boost) ==
    IF HasIdentity(boost) /\ boost.totalAmount # Null /\ boost.totalAmount # Some(0)
    THEN boost.totalAmount[1] ELSE 0

\* C18 (as stated): the stored boost total of an address is the highest total
\* observed so far for it, also when one snapshot holds several records of the
\* address; here after initialize has walked the boosts feed.
C18_StoredIsHighestSeen ==
    (pc \in {"init_orders", "poll"} /\ stats.polls = 0 /\ boosts.kind = "ok") =>
       \A i \in DOMAIN boosts.body :
          StoredTotal(boosts.body[i]) > 0 =>
             /\ boosts.body[i].tokenAddress \in DOMAIN seen_boosts
             /\ seen_boosts[boosts.body[i].tokenAddress] >= StoredTotal(boosts.body[i])

\* the step that has just ended is a pass of initialize over the orders
AfterInitOrders ==
    /\ pc \in {"init_orders", "poll"}
    /\ stats.polls = 0
    /\ data # NoData
    /\ data.resp.kind = "ok"

\* C19: the stored order timestamp of an address never decreases: no step
\* removes or lowers it, and after initialize has walked a list of orders, in
\* whatever order, the stored value is at least every timestamp of the list.
C19_SeenOrderNeverDecreases ==
    /\ [][ \A a \in DOMAIN seen_orders :
              a \in DOMAIN seen_orders' /\ seen_orders'[a] >= seen_orders[a] ]_vars
    /\ [](AfterInitOrders =>
            \A i \in DOMAIN data.resp.body :
               Get(seen_orders, data.token_address, 0)
                  >= PaymentTimestamp(data.resp.body[i]))

\* initialize stored 3 for the token and check_orders has raised it to 4
C19_Witness ==
    /\ AfterCheckOrders(<< Order(Some(4), "tokenAd", "approved") >>)
    /\ Len(alerts) = 1
    /\ alerts[1].last_seen = Some(3)
    /\ seen_orders[data.token_address] = 4

\* whether the claim has an order fire: paid at or after the start and
\* strictly after the timestamp stored when it is examined
Reportable(order, stored) ==
    PaymentTimestamp(order) >= BOT_START_MS /\ PaymentTimestamp(order) > stored

\* the payment times of the orders of body[i..] that fire, and the timestamp
\* stored after them, when stored is the one stored before body[i]
RECURSIVE FiredFrom(_, _, _)
FiredFrom(body, i, stored) ==
    IF i > Len(body) THEN [paid |-> << >>, stored |-> stored]
    ELSE IF Reportable(body[i], stored)
         THEN LET rest == FiredFrom(body, i + 1, PaymentTimestamp(body[i]))
              IN  [paid |-> << PaymentTimestamp(body[i]) >> \o rest.paid,
                   stored |-> rest.stored]
         ELSE FiredFrom(body, i + 1, stored)

\* C20: in a pass of check_orders over the orders of a known token, an order
\* raises an ORDER alert iff it was paid at or after the start and strictly
\* after the timestamp stored for the address (0 if none) when it is examined;
\* an order that fires leaves its timestamp stored, any other leaves the
\* stored timestamp as it was.
C20_OrderFiresIff ==
    [][ (pc = "orders" /\ data'.resp.kind = "ok") =>
          LET stored == Get(seen_orders, data'.token_address, 0)
              exp == FiredFrom(data'.resp.body, 1, stored)
          IN  /\ Len(alerts') = Len(exp.paid)
              /\ \A i \in DOMAIN alerts' :
                    /\ alerts'[i].kind = "ORDER"
                    /\ alerts'[i].paid_at = Some(exp.paid[i])
              /\ IF exp.paid = << >> THEN seen_orders' = seen_orders
                 ELSE seen_orders' = Put(seen_orders, data'.token_address, exp.stored)
      ]_vars

\* an order paid at the very start, with nothing stored, has been reported
C20_Witness ==
    /\ AfterCheckOrders(<< Order(Some(BOT_START_MS), "tokenAd", "approved") >>)
    /\ Len(alerts) = 1
    /\ alerts[1].last_seen = Some(0)
    /\ seen_orders[data.token_address] = BOT_START_MS

\* C21 (as amended): every detector updates its seen-state for a qualifying
\* record first and enriches and notifies afterwards: when print_alert is
\* called for an alert the seen-state already holds the record.
C21_SeenBeforeNotify == \A i \in DOMAIN alerts : alerts[i].noted

\* C21 (as stated): when the notification is delivered the seen-state does not
\* yet hold the record
C21_NotifyBeforeSeen == \A i \in DOMAIN alerts : ~alerts[i].noted

\* process_ads has raised an alert for a key it had already put in seen_ads
C21_Witness ==
    /\ pc = "profiles"
    /\ Len(alerts) = 1
    /\ alerts[1].kind = "AD"
    /\ alerts[1].noted
    /\ AlertKey(alerts[1]) \in seen_ads

\* the records of a feed that was fetched with status 200 and handed to its
\* detector, once the detector has returned
Processed(at, feed) ==
    IF pc = at /\ feed.kind = "ok" THEN {feed.body[i] : i \in DOMAIN feed.body} ELSE {}

\* C22 (as amended): every ad or profile record with a chain id and a token
\* address is in known_tokens when its detector returns, whether or not it
\* raised an alert, and so is every such boost record whose totalAmount is
\* present; a boost record without totalAmount is skipped before that.
C22_KnownAfterDetector ==
    /\ \A r \in Processed("profiles", ads) : HasIdentity(r) => KeyOf(r) \in known_tokens
    /\ \A r \in Processed("boosts", profiles) : HasIdentity(r) => KeyOf(r) \in known_tokens
    /\ \A r \in Processed("check", boosts) :
         HasIdentity(r) /\ r.totalAmount # Null => KeyOf(r) \in known_tokens

\* C22 (as stated): every boost record with both identity fields is in
\* known_tokens when process_boosts returns, whatever its other fields
C22_KnownWhateverTheFields ==
    \A r \in Processed("check", boosts) : HasIdentity(r) => KeyOf(r) \in known_tokens

\* process_boosts has walked the boost of total 0, which raises no alert, and
\* its token, named by no other record, is known
C22_Witness ==
    /\ ZeroBoost \in Processed("check", boosts)
    /\ alerts = << >>
    /\ KeyOf(ZeroBoost) \in known_tokens
    /\ KeyOf(ZeroBoost) \notin seen_ads \cup seen_profiles

\* the records of the boosts feed that initialize has just fetched with status 200
InitProcessedBoosts ==
    IF pc \in {"poll", "init_orders"} /\ boosts.kind = "ok"
    THEN {boosts.body[i] : i \in DOMAIN boosts.body} ELSE {}

\* key is named, with both identity fields, by a record of a feed that has just
\* been fetched with status 200
Appeared(key) ==
    \E r \in Processed("init_profiles", ads) \cup Processed("init_boosts", profiles)
               \cup InitProcessedBoosts \cup Processed("profiles", ads)
               \cup Processed("boosts", profiles) \cup Processed("check", boosts) :
      HasIdentity(r) /\ KeyOf(r) = key

\* the same, where a boost record counts only if it has a totalAmount, and in
\* initialize only if that total is not 0
AppearedWithTotal(key) ==
    \/ \E r \in Processed("init_profiles", ads) \cup Processed("init_boosts", profiles)
                  \cup Processed("profiles", ads) \cup Processed("boosts", profiles) :
         HasIdentity(r) /\ KeyOf(r) = key
    \/ \E r \in Processed("check", boosts) :
         HasIdentity(r) /\ KeyOf(r) = key /\ r.totalAmount # Null
    \/ \E r \in InitProcessedBoosts :
         HasIdentity(r) /\ KeyOf(r) = key /\ r.totalAmount \notin {Null, Some(0)}

\* a pass of check_orders in the driver loop has just requested the orders of key
Polled(key) ==
    /\ pc \in {"orders", "status"}
    /\ stats.polls > 0
    /\ data.chain_id = key[1]
    /\ data.token_address = key[2]

\* C23 (as amended): while the loop keeps running, every (chain, token) pair
\* named with both identity fields by a successfully fetched ad or profile
\* record, or by a boost record that has a totalAmount (a non-zero one during
\* initialize), is known from then on and is eventually polled by check_orders;
\* a run of check_orders takes exactly known_tokens as it stands when the run
\* starts, polls only tokens of that snapshot and polls every one of them.
C23_KnownTokensGetPolled ==
    /\ \A key \in Keys : AppearedWithTotal(key) ~> Polled(key)
    /\ \A key \in Keys : [](AppearedWithTotal(key) => [](key \in known_tokens))
    /\ [][pc = "check" /\ OrdersDue(stats.polls) => todo' = known_tokens]_vars
    /\ [][pc = "orders" => /\ <<data'.chain_id, data'.token_address>> \in todo
                           /\ todo' = todo \ {<<data'.chain_id, data'.token_address>>}]_vars
    /\ \A key \in Keys : (pc = "orders" /\ key \in todo) ~> Polled(key)

\* C23 (as stated): every pair named with both identity fields by any
\* successfully fetched ad, profile or boost record is eventually polled, and
\* a run of check_orders that starts in the cycle of its appearance polls it
C23_EveryTokenSeenGetsPolled ==
    /\ \A key \in Keys : Appeared(key) ~> Polled(key)
    /\ [][ pc = "check" /\ OrdersDue(stats.polls) =>
             \A key \in Keys : Appeared(key) => key \in todo' ]_vars

\* the token that only the boost of total 0 names is polled by check_orders
C23_Witness ==
    /\ Polled(KeyOf(ZeroBoost))
    /\ KeyOf(ZeroBoost) \notin seen_ads \cup seen_profiles
    /\ stats.polls = KnownPolls

\* C24: initialize raises no alert and counts no detection, in whatever state
\* it leaves the feeds; when it has walked the order list of a token it has
\* stored at least the latest payment timestamp of the list, and no later run
\* of check_orders raises an ORDER alert for an order of that list.
C24_StartupOrdersNeverAlert ==
    /\ InInitialize =>
         /\ alerts = << >>
         /\ \A kind \in Kinds, key \in Keys : emitted[kind][key] = 0
         /\ stats.ads_detected = 0 /\ stats.boosts_detected = 0
         /\ stats.orders_detected = 0
    /\ AfterInitOrders =>
         /\ data.token_address \in DOMAIN seen_orders
         /\ seen_orders[data.token_address] = StartupLatest
    /\ \A i \in DOMAIN alerts :
         alerts[i].kind = "ORDER" /\ alerts[i].addr = "0xA"
            => alerts[i].paid_at[1] > StartupLatest

\* a run of check_orders has found both startup orders again and raised nothing
C24_Witness ==
    /\ AfterCheckOrders(<< PaidAt(BOT_START_MS), PaidAt(StartupLatest) >>)
    /\ data.token_address = "0xA"
    /\ stats.polls = 5
    /\ alerts = << >>
    /\ emitted["ORDER"][<<"eth", "0xA">>] = 0

\* C25 (as stated): the price of the channel message is the formatted price of
\* the enriched value, the text the console block shows, for every alert
C25_ChannelShowsConsolePrice ==
    USE_TELEGRAM =>
      \A i \in DOMAIN alerts : ChannelPrice(alerts[i].info) = ConsolePrice(alerts[i].info)

\* C26: for each token address the payment timestamps of the ORDER alerts
\* increase strictly in the order the alerts are raised, over the whole run:
\* the alerts of one pass of check_orders are for the address polled, each
\* is paid after the one before it and the first after the timestamp stored
\* when the pass starts; the pass leaves the last one stored; no other step
\* raises an ORDER alert and no step lowers a stored timestamp. So no
\* (address, timestamp) pair is reported twice.
C26_OrderTimesIncrease ==
    /\ [][ pc = "orders" =>
             LET a == data'.token_address
                 paid(i) == IF i = 0 THEN Get(seen_orders, a, 0) ELSE alerts'[i].paid_at[1]
             IN  /\ \A i \in DOMAIN alerts' :
                       /\ alerts'[i].kind = "ORDER"
                       /\ alerts'[i].addr = a
                       /\ paid(i) > paid(i - 1)
                 /\ Get(seen_orders', a, 0) = paid(Len(alerts')) ]_vars
    /\ [][ pc # "orders" => \A i \in DOMAIN alerts' : alerts'[i].kind # "ORDER" ]_vars
    /\ [][ \A b \in DOMAIN seen_orders :
              b \in DOMAIN seen_orders' /\ seen_orders'[b] >= seen_orders[b] ]_vars

\* the second run of check_orders raises the token's second ORDER alert, paid
\* after the order that the first run reported
C26_Witness ==
    /\ AfterCheckOrders(<< Order(Some(3), "tokenAd", "approved"),
                           Order(Some(4), "tokenAd", "approved") >>)
    /\ stats.polls = 10
    /\ emitted["ORDER"][<<data.chain_id, data.token_address>>] = 2
    /\ Len(alerts) = 1
    /\ alerts[1].paid_at = Some(4)
    /\ alerts[1].last_seen = Some(3)

\* C27: a run of check_orders leaves known_tokens, seen_ads, seen_profiles,
\* seen_boosts and the profile cache as they are; process_ads,
\* process_profiles and process_boosts leave seen_orders as it is, and each of
\* them writes, of the seen-state, only its own, besides known_tokens and, for
\* process_profiles, the profile cache.
C27_DetectorsWriteTheirOwnState ==
    [][ /\ pc \in {"check", "orders"} =>
             UNCHANGED << known_tokens, seen_ads, seen_profiles, seen_boosts,
                          profile_headers, profile_socials >>
        /\ pc = "ads" =>
             UNCHANGED << seen_orders, seen_profiles, seen_boosts, profile_headers,
                          profile_socials >>
        /\ pc = "profiles" => UNCHANGED << seen_orders, seen_ads, seen_boosts >>
        /\ pc = "boosts" =>
             UNCHANGED << seen_orders, seen_ads, seen_profiles, profile_headers,
                          profile_socials >> ]_vars

\* check_orders has raised an ORDER alert while every other seen-state and the
\* profile cache hold an entry
C27_Witness ==
    /\ pc \in {"orders", "status"}
    /\ data # NoData
    /\ Len(alerts) = 1
    /\ alerts[1].kind = "ORDER"
    /\ data.token_address \in DOMAIN seen_orders
    /\ seen_ads # {} /\ seen_profiles # {}
    /\ DOMAIN seen_boosts # {}
    /\ DOMAIN profile_headers # {}
    /\ Cardinality(known_tokens) = 2

====
